---- MODULE Spec2Model ----
(***************************************************************************)
(* Habit monitor: the statistics tracker (lib/stats.py), the audio        *)
(* cooldown gate (lib/audio.py) and their callers, as state machines.      *)
(*                                                                         *)
(* Time is a discrete clock `now` (datetime.now() / time.time() read it). *)
(* Durations are differences of clock readings.  Every call that records  *)
(* a detection or ends the session returns at a later reading than the one *)
(* it read, so their readings are strictly increasing; start_session and   *)
(* a snapshot may return within the reading they read.  Tick lets more     *)
(* time pass.                                                              *)
(* Python's None is the integer None, outside the range of the clock.      *)
(***************************************************************************)
EXTENDS Integers, Sequences, FiniteSets, TLC

\* ------------------------------------------------------------------ bounds
MaxTime == 6

\* --------------------------------------------------------------- constants
None == -1
Confidences == {9}
Classes == {"chomping"}

VARIABLES
    now,            \* the wall clock read by datetime.now()
    stats_tracker,  \* the fields of the StatsTracker object
    stats_file,     \* the content of logs/habit_statistics.json
    phase,          \* history: what was called on the tracker since it was fresh
    end_time,       \* history: the clock reading of the last end_session()
    ingest,         \* ingestion thread: its position inside a tracker call, its locals
    render,         \* render thread: its position inside get_current_stats(), the dict so far
    committed,      \* history: the tracker as the last completed transition left it
    seen,           \* history: the tracker views that were current during the running snapshot
    audio_manager,  \* the fields of the AudioManager object
    warning_lock,   \* the thread holding AudioManager.warning_lock, or None
    threads,        \* the position and locals of each thread calling the AudioManager
    calls,          \* history: the play_warning calls that the gate rejected or that fired
    last_call,      \* history: the last test_audio() or set_cooldown() call, if no call followed
    last_op,        \* history: the last call on the tracker and what it found or left
    display,        \* the fields of the DisplayManager object
    loops,          \* the threads created by start_display(): position in _display_loop
    callers,        \* the threads calling start_display() / stop_display(): position, call
    shown,          \* history: what the display calls and the render loops have done
    monitor,        \* the fields of the HabitMonitor object
    last_prediction,\* history: the last payload given to _on_prediction and its outcome
    mon_log,        \* history: the last HabitMonitor(...) call and the last stop_monitoring()
    run             \* the main thread inside start_monitoring(): position, pending exception

snap_vars == <<ingest, render, committed, seen>>

gate_vars == <<audio_manager, warning_lock, threads, calls, last_call>>

disp_vars == <<display, loops, callers, shown>>

mon_vars == <<monitor, last_prediction, mon_log, run>>

vars == <<now, stats_tracker, stats_file, phase, end_time, snap_vars, gate_vars,
          last_op, disp_vars, mon_vars>>

\* ---------------------------------------------------------- StatsTracker
\* The fields assigned by StatsTracker.__init__ before _load_statistics().
FreshTracker ==
    [ session_start_time     |-> None,
      habit_start_time       |-> None,
      total_habit_time       |-> 0,
      current_habit_duration |-> 0,
      is_habit_active        |-> FALSE,
      total_detections       |-> 0,
      habit_sessions         |-> <<>>,
      detection_history      |-> <<>> ]

NoFile == [ exists |-> FALSE ]

\* _start_habit_session(timestamp, habit_class)
\* variant of _start_habit_session that does not count the detection
StartHabitSession_NoCount(t, timestamp) ==
    [ t EXCEPT !.habit_start_time = timestamp,
               !.is_habit_active  = TRUE ]

StartHabitSession(t, timestamp) ==
    [ t EXCEPT !.habit_start_time = timestamp,
               !.is_habit_active  = TRUE,
               !.total_detections = @ + 1 ]

\* variants of _end_habit_session with one statement missing
EndHabitSession_NoTotal(t, timestamp) ==
    IF ~t.is_habit_active \/ t.habit_start_time = None
    THEN t
    ELSE [ t EXCEPT !.habit_sessions =
                        Append(@, [ start_time |-> t.habit_start_time,
                                    end_time   |-> timestamp,
                                    duration   |-> timestamp - t.habit_start_time ]),
                    !.is_habit_active        = FALSE,
                    !.current_habit_duration = 0,
                    !.habit_start_time       = None ]

EndHabitSession_KeepCurrent(t, timestamp) ==
    IF ~t.is_habit_active \/ t.habit_start_time = None
    THEN t
    ELSE [ t EXCEPT !.habit_sessions =
                        Append(@, [ start_time |-> t.habit_start_time,
                                    end_time   |-> timestamp,
                                    duration   |-> timestamp - t.habit_start_time ]),
                    !.total_habit_time       = @ + (timestamp - t.habit_start_time),
                    !.is_habit_active        = FALSE,
                    !.habit_start_time       = None ]

EndHabitSession_StaysActive(t, timestamp) ==
    IF ~t.is_habit_active \/ t.habit_start_time = None
    THEN t
    ELSE [ t EXCEPT !.habit_sessions =
                        Append(@, [ start_time |-> t.habit_start_time,
                                    end_time   |-> timestamp,
                                    duration   |-> timestamp - t.habit_start_time ]),
                    !.total_habit_time       = @ + (timestamp - t.habit_start_time),
                    !.current_habit_duration = 0 ]

\* _end_habit_session(timestamp): the caller passes the clock reading that
\* `timestamp or datetime.now()` evaluates to (a datetime is always truthy).
\* variant of _end_habit_session that keeps only the session it records
EndHabitSession_Replace(t, timestamp) ==
    IF ~t.is_habit_active \/ t.habit_start_time = None
    THEN t
    ELSE LET session_duration == timestamp - t.habit_start_time IN
         [ t EXCEPT !.habit_sessions =
                        << [ start_time |-> t.habit_start_time,
                             end_time   |-> timestamp,
                             duration   |-> session_duration ] >>,
                    !.total_habit_time       = @ + session_duration,
                    !.is_habit_active        = FALSE,
                    !.current_habit_duration = 0,
                    !.habit_start_time       = None ]

EndHabitSession(t, timestamp) ==
    IF ~t.is_habit_active \/ t.habit_start_time = None
    THEN t
    ELSE LET session_duration == timestamp - t.habit_start_time IN
         [ t EXCEPT !.habit_sessions =
                        Append(@, [ start_time |-> t.habit_start_time,
                                    end_time   |-> timestamp,
                                    duration   |-> session_duration ]),
                    !.total_habit_time       = @ + session_duration,
                    !.is_habit_active        = FALSE,
                    !.current_habit_duration = 0,
                    !.habit_start_time       = None ]

\* variant of _update_current_habit_duration that counts every frame
UpdateCurrentHabitDuration_Counting(t, timestamp) ==
    IF t.habit_start_time # None
    THEN [ t EXCEPT !.current_habit_duration = timestamp - t.habit_start_time,
                    !.total_detections = @ + 1 ]
    ELSE t

\* _update_current_habit_duration(timestamp)
UpdateCurrentHabitDuration(t, timestamp) ==
    IF t.habit_start_time # None
    THEN [ t EXCEPT !.current_habit_duration = timestamp - t.habit_start_time ]
    ELSE t

\* update_habit_detection(detected, confidence, habit_class) at clock reading
\* current_time
UpdateHabitDetection(t, detected, confidence, habit_class, current_time) ==
    LET t1 == [ t EXCEPT !.detection_history =
                    Append(@, [ timestamp  |-> current_time,
                                detected   |-> detected,
                                confidence |-> confidence,
                                class      |-> habit_class ]) ]
    IN  IF detected /\ ~t1.is_habit_active
        THEN StartHabitSession(t1, current_time)
        ELSE IF ~detected /\ t1.is_habit_active
        THEN EndHabitSession(t1, current_time)
        ELSE IF detected /\ t1.is_habit_active
        THEN UpdateCurrentHabitDuration(t1, current_time)
        ELSE t1

\* variant of end_session that leaves an open habit session open
EndSession_NoClose(t, current_time) == t

\* end_session() before _save_statistics(): closes an open habit session at
\* the clock reading current_time
EndSession(t, current_time) ==
    IF t.is_habit_active THEN EndHabitSession(t, current_time) ELSE t

\* ------------------------------------------------------------ persistence
\* datetime.isoformat() of a clock reading (the time of day it writes) and
\* datetime.fromisoformat() of that text
IsoFormat(d) == [ hh |-> d \div 3600, mm |-> (d % 3600) \div 60, ss |-> d % 60 ]

\* variant of fromisoformat that drops the seconds
FromIsoFormat_Minutes(text) == text.hh * 3600 + text.mm * 60

FromIsoFormat(text) == text.hh * 3600 + text.mm * 60 + text.ss

\* timedelta.total_seconds() and timedelta(seconds=...): a duration of whole
\* clock units is the same number as a float
TotalSeconds(td) == td
Timedelta(seconds) == seconds

\* JSON null
JsonNull == [ null |-> TRUE ]

\* The dict _save_statistics() builds (lines 184-205).
SavedJson(t) ==
    [ session_start_time       |-> IF t.session_start_time # None
                                   THEN IsoFormat(t.session_start_time) ELSE JsonNull,
      total_detections         |-> t.total_detections,
      total_habit_time_seconds |-> TotalSeconds(t.total_habit_time),
      habit_sessions           |->
          [ i \in 1..Len(t.habit_sessions) |->
              [ start_time       |-> IsoFormat(t.habit_sessions[i].start_time),
                end_time         |-> IsoFormat(t.habit_sessions[i].end_time),
                duration_seconds |-> TotalSeconds(t.habit_sessions[i].duration) ] ],
      detection_history        |->
          [ i \in 1..Len(t.detection_history) |->
              [ timestamp  |-> IsoFormat(t.detection_history[i].timestamp),
                detected   |-> t.detection_history[i].detected,
                confidence |-> t.detection_history[i].confidence,
                class      |-> t.detection_history[i].class ] ] ]

\* The file after a _save_statistics() that wrote it.  corrupt_at names the
\* first thing in the file that cannot be read ("none": well-formed);
\* origin is history: the tracker the file was written from.
SavedData(t) ==
    [ exists |-> TRUE, corrupt_at |-> "none", data |-> SavedJson(t), origin |-> t ]

\* a file that json.load cannot decode, as a json.dump that raised part-way
\* or an open(..., 'w') followed by a failed write leaves it
Undecodable == [ SavedData(FreshTracker) EXCEPT !.corrupt_at = "decode" ]

\* a file of which one place has been made unreadable
Corrupted(f, point) ==
    IF point = "decode" THEN Undecodable ELSE [ f EXCEPT !.corrupt_at = point ]

\* the places where a file can be malformed
CorruptPoints ==
    { "decode", "session_start_time", "total_habit_time_seconds",
      "habit_sessions", "detection_history" }

\* the malformations a well-formed file can suffer: a text that is no JSON,
\* a session_start_time that is no ISO date, a total_habit_time_seconds that
\* is no number, a malformed last entry of habit_sessions or of
\* detection_history
CanCorrupt(f, point) ==
    CASE point = "session_start_time" -> f.data.session_start_time # JsonNull
      [] point = "habit_sessions"     -> Len(f.data.habit_sessions) > 0
      [] point = "detection_history"  -> Len(f.data.detection_history) > 0
      [] OTHER                        -> TRUE

LoadSession(session_data) ==
    [ start_time |-> FromIsoFormat(session_data.start_time),
      end_time   |-> FromIsoFormat(session_data.end_time),
      duration   |-> Timedelta(session_data.duration_seconds) ]

LoadEvent(event_data) ==
    [ timestamp  |-> FromIsoFormat(event_data.timestamp),
      detected   |-> event_data.detected,
      confidence |-> event_data.confidence,
      class      |-> event_data.class ]

\* the entries a restore loop (lines 230-235, 239-245) has appended when it
\* stops: all of them, or those before the malformed last one
Restored(entries, malformed) ==
    IF malformed THEN SubSeq(entries, 1, Len(entries) - 1) ELSE entries

\* _load_statistics(): a missing file (FileNotFoundError) leaves the fields
\* of __init__; any other Exception is logged by lines 251-252 where it is
\* raised, and the assignments made before it stay.
LoadStatistics(t, f) ==
    IF ~f.exists \/ f.corrupt_at = "decode"
    THEN t
    ELSE IF f.corrupt_at = "session_start_time"
    THEN t
    ELSE
    LET t1 == [ t EXCEPT !.session_start_time =
                              IF f.data.session_start_time # JsonNull
                              THEN FromIsoFormat(f.data.session_start_time) ELSE @,
                         !.total_detections = f.data.total_detections ]
    IN  IF f.corrupt_at = "total_habit_time_seconds"
        THEN t1
        ELSE
        LET sessions == Restored(f.data.habit_sessions, f.corrupt_at = "habit_sessions")
            t2 == [ t1 EXCEPT !.total_habit_time = Timedelta(f.data.total_habit_time_seconds),
                              !.habit_sessions =
                                  [ i \in 1..Len(sessions) |-> LoadSession(sessions[i]) ] ]
        IN  IF f.corrupt_at = "habit_sessions"
            THEN t2
            ELSE
            LET events == Restored(f.data.detection_history,
                                   f.corrupt_at = "detection_history")
            IN  [ t2 EXCEPT !.detection_history =
                                [ i \in 1..Len(events) |-> LoadEvent(events[i]) ] ]

\* what becomes of the file in _save_statistics(): written, left as it was
\* (open failed), or left truncated (the write failed)
SaveOutcomes == {"saved", "failed", "truncated"}

FileAfterSave(t, f, outcome) ==
    CASE outcome = "saved"     -> SavedData(t)
      [] outcome = "failed"    -> f
      [] outcome = "truncated" -> Undecodable

\* variant of _save_statistics without its except clause
SaveRaises_NoExcept(outcome) == outcome # "saved"

\* _save_statistics(): whether the call raises; the except clause of lines
\* 212-213 logs every Exception
SaveRaises(outcome) == FALSE

\* --------------------------------------------------------------- snapshots
\* a value num/den; safe_divide() yields 0 for a zero denominator
Ratio(num, den) == IF den = 0 THEN [ num |-> 0, den |-> 1 ] ELSE [ num |-> num, den |-> den ]

RECURSIVE SumDurations(_)
SumDurations(sessions) ==
    IF sessions = <<>> THEN 0
    ELSE Head(sessions).duration + SumDurations(Tail(sessions))

\* get_session_duration() at clock reading clock
GetSessionDuration(t, clock) ==
    IF t.session_start_time = None THEN 0 ELSE clock - t.session_start_time

\* get_habit_percentage() at clock reading clock
GetHabitPercentage(t, clock) ==
    IF GetSessionDuration(t, clock) = 0
    THEN Ratio(0, 1)
    ELSE Ratio((t.total_habit_time + t.current_habit_duration) * 100,
               GetSessionDuration(t, clock))

\* a division that raises ZeroDivisionError: the value num / den, or Fault
Fault == [ num |-> 0, den |-> 0 ]
Quotient(num, den) == IF den = 0 THEN Fault ELSE [ num |-> num, den |-> den ]

\* variant of get_average_session_duration without the guard of line 132
GetAverageSessionDuration_NoGuard(t) ==
    Quotient(SumDurations(t.habit_sessions), Len(t.habit_sessions))

\* get_average_session_duration(): line 140 divides by len(habit_sessions)
GetAverageSessionDuration(t) ==
    IF t.habit_sessions = <<>>
    THEN Ratio(0, 1)
    ELSE Quotient(SumDurations(t.habit_sessions), Len(t.habit_sessions))

\* get_detection_rate() at clock reading clock: detections per minute, the
\* clock counting seconds
GetDetectionRate(t, clock) ==
    IF GetSessionDuration(t, clock) = 0
    THEN Ratio(0, 1)
    ELSE Ratio(t.total_detections * 60, GetSessionDuration(t, clock))

\* the thread-local state of the two threads when they are in no call
IngestIdle == [ pc |-> "idle", timestamp |-> None, end_time |-> None,
                session_duration |-> None, caller |-> "none" ]
EmptyStats ==
    [ session_duration |-> 0, total_detections |-> 0, total_habit_time |-> 0,
      current_habit_duration |-> 0, habit_sessions_count |-> 0,
      average_session_duration |-> Ratio(0, 1), habit_percentage |-> Ratio(0, 1),
      detection_rate |-> Ratio(0, 1), is_habit_active |-> FALSE ]
\* render.pc: 0 outside get_current_stats(), k before the k-th key of its
\* dict is evaluated, ReturnPc when the dict is complete
RenderIdle == [ pc |-> 0, stats |-> EmptyStats ]

\* the keys of the dict get_current_stats() builds, in evaluation order
StatsKeys ==
    << "session_duration", "total_detections", "total_habit_time",
       "current_habit_duration", "habit_sessions_count",
       "average_session_duration", "habit_percentage", "detection_rate",
       "is_habit_active" >>

\* the value get_current_stats() computes for one key of its dict, from the
\* tracker fields as they are when that key is evaluated
StatsValue(key, t, clock) ==
    CASE key = "session_duration"         -> GetSessionDuration(t, clock)
      [] key = "total_detections"         -> t.total_detections
      [] key = "total_habit_time"         -> t.total_habit_time
      [] key = "current_habit_duration"   -> t.current_habit_duration
      [] key = "habit_sessions_count"     -> Len(t.habit_sessions)
      [] key = "average_session_duration" -> GetAverageSessionDuration(t)
      [] key = "habit_percentage"         -> GetHabitPercentage(t, clock)
      [] key = "detection_rate"           -> GetDetectionRate(t, clock)
      [] key = "is_habit_active"          -> t.is_habit_active

ReturnPc == Len(StatsKeys) + 1

\* get_current_stats() evaluated with no other thread running
GetCurrentStats(t, clock) ==
    [ key \in { StatsKeys[i] : i \in 1..Len(StatsKeys) } |-> StatsValue(key, t, clock) ]

\* variant of get_current_stats that refreshes the live duration it reports
TrackerAfterStats_Refresh(t, clock) == UpdateCurrentHabitDuration(t, clock)

\* the tracker as get_current_stats() / get_formatted_stats() and the helpers
\* they call leave it: none of them has an assignment to a field of self
\* (get_formatted_stats only formats the dict of get_current_stats)
TrackerAfterStats(t, clock) == t

\* no call on the tracker yet, or the last one was no snapshot and no
\* end_session
NoOp == [ op |-> "none" ]

\* ------------------------------------------------------------ AudioManager
\* AudioManager.__init__(enabled, cooldown_seconds)
DefaultCooldown == 5

NewAudioManager(enabled, cooldown_seconds) ==
    [ enabled           |-> enabled,
      cooldown_seconds  |-> cooldown_seconds,
      last_warning_time |-> 0 ]

\* the threads that call the AudioManager, and a thread in no call
Threads == {1, 2}
ThreadIdle == [ pc |-> "idle", current_time |-> None, original_cooldown |-> None,
                in_test |-> FALSE,
                met_cooldown |-> None ]  \* history: cooldown_seconds as line 31 read it

\* _play_sound(): "played" when the platform sound or the terminal bell of
\* its except branch came out, "raised" when the bell raised as well
SoundOutcomes == {"played", "raised"}

\* the platform player called at lines 45-50 lets the sound out or raises;
\* print("\a") of line 52 runs only after it raised, and may raise as well
SinkOutcomes == {"sound", "raised"}
BellOutcomes == {"bell", "raised"}

\* variant of _play_sound without its except clause: the exception of the
\* platform player goes straight to the except clause of play_warning
AfterSink_NoExcept(sink) == IF sink = "sound" THEN "line38" ELSE "line40"

\* where control goes when the platform player ends in sink: back into
\* play_warning at line 38, or into the except clause of _play_sound
AfterSink(sink) == IF sink = "sound" THEN "line38" ELSE "line52"

\* where control goes after print("\a"): _play_sound returns to line 38,
\* or the exception reaches the except clause of play_warning at line 39
AfterBell(bell) == IF bell = "bell" THEN "line38" ELSE "line40"

\* play_warning, lines 39-40: an exception of _play_sound is logged, the
\* call raises nothing
PlayWarningRaises(pc) == FALSE

\* play_warning, line 31: the cooldown period has not passed
InCooldown(a, current_time) ==
    current_time - a.last_warning_time < a.cooldown_seconds

\* variant of play_warning that skips the cooldown check
PlayWarning_NoCooldown(a, current_time, outcome) ==
    IF ~a.enabled
    THEN [ am |-> a, result |-> "disabled" ]
    ELSE IF outcome = "played"
    THEN [ am |-> [ a EXCEPT !.last_warning_time = current_time ], result |-> "fired" ]
    ELSE [ am |-> a, result |-> "failed" ]

\* play_warning() at clock reading current_time, _play_sound ending in
\* outcome: the AudioManager afterwards and what the call did: returned at
\* line 25 ("disabled") or at line 32 ("cooldown"), let a sound or the bell
\* out and recorded the time ("fired"), or logged the error of line 40
\* ("failed")
PlayWarning(a, current_time, outcome) ==
    IF ~a.enabled
    THEN [ am |-> a, result |-> "disabled" ]
    ELSE IF InCooldown(a, current_time)
    THEN [ am |-> a, result |-> "cooldown" ]
    ELSE IF outcome = "played"
    THEN [ am |-> [ a EXCEPT !.last_warning_time = current_time ], result |-> "fired" ]
    ELSE [ am |-> a, result |-> "failed" ]

\* variant of test_audio without the finally block
TestAudio_NoRestore(a, current_time, outcome) ==
    PlayWarning([ a EXCEPT !.cooldown_seconds = 0 ], current_time, outcome)

\* test_audio(): cooldown 0 around one play_warning, restored in finally
TestAudio(a, current_time, outcome) ==
    LET original_cooldown == a.cooldown_seconds
        played == PlayWarning([ a EXCEPT !.cooldown_seconds = 0 ], current_time, outcome)
    IN  [ am     |-> [ played.am EXCEPT !.cooldown_seconds = original_cooldown ],
          result |-> played.result ]

\* variant of set_cooldown that stores its argument as it is
SetCooldown_NoClamp(a, seconds) == [ a EXCEPT !.cooldown_seconds = seconds ]

\* set_cooldown(seconds)
SetCooldown(a, seconds) ==
    [ a EXCEPT !.cooldown_seconds = IF seconds > 0 THEN seconds ELSE 0 ]

\* set_enabled(enabled)
SetEnabled(a, enabled) == [ a EXCEPT !.enabled = enabled ]

\* the history of calls after a call at current_time that met cooldown
\* period cooldown and ended in result
\* (contended: another thread was waiting for warning_lock meanwhile)
Logged(log, current_time, cooldown, result, contended) ==
    IF result \in {"fired", "cooldown"}
    THEN Append(log, [ time      |-> current_time,
                       cooldown  |-> cooldown,
                       fired     |-> result = "fired",
                       contended |-> contended ])
    ELSE log

\* variant of the lock that never makes a thread wait
LockAvailable_Always(lock) == TRUE

\* `with self.warning_lock` can be entered
LockAvailable(lock) == lock = None

NoCall == [ op |-> "none" ]

\* ---------------------------------------------------------- DisplayManager
\* DisplayManager.__init__: the two fields the lifecycle uses
NewDisplayManager == [ running |-> FALSE, display_thread |-> None ]

\* the thread objects start_display() can create, and the calling threads
MaxLoops == 2
Loops == 1..MaxLoops
Callers == {1, 2}

\* a thread object: pc is "unborn" before threading.Thread(...) creates it,
\* "created" before start(), then a position in _display_loop, "done" after
\* the loop has returned.  History: signalled (running was set to False while
\* the thread was alive), failed (one of its ticks raised), saw_stop (it
\* returned because its loop condition read running as False).
LoopUnborn == [ pc |-> "unborn", signalled |-> FALSE, failed |-> FALSE, saw_stop |-> FALSE ]
Alive == {"check", "render", "sleep", "backoff"}

\* a calling thread in no call: pc is the line of start_display() /
\* stop_display() it executes next, target the thread it joins.  History:
\* alone (no other thread was in a call during this call), pre_running and
\* pre_created (running and the number of thread objects when the call began)
CallerIdle == [ pc |-> "idle", target |-> None, alone |-> TRUE,
                pre_running |-> FALSE, pre_created |-> 0 ]

\* history of the display: stopped (a stop_display() has returned and no
\* start_display() was in progress or has begun since), stray (a tick was
\* rendered while stopped), late_tick (a loop began a tick after it was
\* signalled), last_stop (the stop_display() call that has just returned),
\* overlap (some call began while another thread was in a call)
NoShown == [ stopped |-> FALSE, stray |-> FALSE, late_tick |-> FALSE,
             last_stop |-> [ op |-> "none" ], overlap |-> FALSE ]

NumCreated(ls) == Cardinality({ l \in Loops : ls[l].pc # "unborn" })
LiveLoops(ls) == { l \in Loops : ls[l].pc \in Alive }

\* variant of line 45 that flips the flag
StopSignal_Toggle(d) == [ d EXCEPT !.running = ~@ ]

\* stop_display() line 45: self.running = False
StopSignal(d) == [ d EXCEPT !.running = FALSE ]

\* variant of _display_loop without the try/except around the tick
AfterTick_NoExcept(outcome) == IF outcome = "ok" THEN "sleep" ELSE "done"

\* _display_loop lines 59-64: where the loop goes after _render_dashboard()
\* returned ("ok": time.sleep(refresh_rate)) or raised an Exception
\* ("raised": logged, time.sleep(1))
TickOutcomes == {"ok", "raised"}
AfterTick(outcome) == IF outcome = "ok" THEN "sleep" ELSE "backoff"

\* ------------------------------------------------------------ HabitMonitor
\* HabitMonitor.__init__: confidence_threshold (tenths, validated to be in
\* [0.0, 1.0]) and last_detection_time
NewMonitor(confidence_threshold) ==
    [ confidence_threshold |-> confidence_threshold,
      pipeline             |-> FALSE,
      is_monitoring        |-> FALSE,
      last_detection_time  |-> None ]
DefaultThreshold == 7
NoPrediction == [ op |-> "none" ]
\* init is the last HabitMonitor(...) call if no start_monitoring() followed
\* saved: the last stop_monitoring() that ended the session wrote the file
NoMonLog == [ init |-> [ op |-> "none" ], stop |-> "none", ran |-> FALSE,
              saved |-> FALSE ]
\* the main thread outside start_monitoring(); started and ended are history:
\* the start_session() and end_session() calls of the last run
NoRun == [ pc |-> "idle", pending |-> "none", started |-> 0, ended |-> 0 ]

\* validate_confidence(confidence) accepts a number in [0.0, 1.0] (tenths)
ValidConfidence(confidence) == confidence >= 0 /\ confidence <= 10

\* HabitMonitor.__init__(confidence_threshold, config) in the order of its
\* statements: validate_confidence (line 27) and the API key check (41-42)
\* raise ValueError; then AudioManager, DisplayManager and StatsTracker are
\* created.  created: the components that exist when the call ends.
MonitorInit(confidence_threshold, cooldown_seconds, api_key) ==
    IF ~ValidConfidence(confidence_threshold) \/ ~api_key
    THEN [ raised |-> TRUE, created |-> {},
           monitor |-> NewMonitor(DefaultThreshold),
           audio_manager |-> NewAudioManager(TRUE, DefaultCooldown) ]
    ELSE [ raised |-> FALSE,
           created |-> {"audio_manager", "display_manager", "stats_tracker"},
           monitor |-> NewMonitor(confidence_threshold),
           audio_manager |-> NewAudioManager(TRUE, cooldown_seconds) ]

\* The payloads the inference pipeline may hand to _on_prediction.  kind: the
\* payload is None, a list (any non-dict), {} or a non-empty dict; preds: its
\* 'classification_predictions' is missing, None, {}, a non-empty list (any
\* truthy non-dict) or a dict; top and conf_kind/confidence: that dict's
\* 'top' and 'confidence', a confidence being missing, a number (in tenths),
\* a string or None.
Tops == {"missing", "chomping", "eating"}
Numbers == {-2, 3, 9, 17}
NoPreds(kind, preds) ==
    [ kind |-> kind, preds |-> preds, top |-> "missing",
      conf_kind |-> "missing", confidence |-> 0 ]
Payloads ==
    { NoPreds("none", "missing"), NoPreds("list", "missing"), NoPreds("empty_dict", "missing") }
    \cup { NoPreds("dict", preds) : preds \in {"missing", "none", "empty", "list"} }
    \cup { [ kind |-> "dict", preds |-> "dict", top |-> top,
             conf_kind |-> "number", confidence |-> n ] : top \in Tops, n \in Numbers }
    \cup { [ kind |-> "dict", preds |-> "dict", top |-> top,
             conf_kind |-> ck, confidence |-> 0 ] :
               top \in Tops, ck \in {"missing", "string", "none"} }

\* the confidence thresholds HabitMonitor is constructed with (tenths);
\* validate_confidence accepts 0.0 to 1.0
Thresholds == {0, DefaultThreshold}

\* a variant of the default prediction data with another label
DefaultPrediction_NoClass == [ top_class |-> "none", confidence |-> 0 ]

\* _process_prediction lines 183-186 and 207
DefaultPrediction == [ top_class |-> "unknown", confidence |-> 0 ]

Returns(detected, data) == [ raised |-> FALSE, detected |-> detected, data |-> data ]
Raises == [ raised |-> TRUE, detected |-> FALSE, data |-> DefaultPrediction ]

\* the body of the try block of _process_prediction (lines 183-203): what it
\* returns, or that it raises.  classification_preds.get raises
\* AttributeError on a non-dict; `confidence >= threshold` raises TypeError
\* and the :.3f format raises on a confidence that is no number.
ProcessPredictionBody(result, confidence_threshold) ==
    IF result.kind # "dict" THEN Returns(FALSE, DefaultPrediction)
    ELSE IF result.preds \in {"missing", "none", "empty"} THEN Returns(FALSE, DefaultPrediction)
    ELSE IF result.preds # "dict" THEN Raises
    ELSE LET top_class  == IF result.top = "missing" THEN "unknown" ELSE result.top
             is_number  == result.conf_kind \in {"missing", "number"}
             confidence == IF result.conf_kind = "number" THEN result.confidence ELSE 0
             data       == [ top_class |-> top_class, confidence |-> confidence ]
         IN  IF ~is_number THEN Raises
             ELSE IF top_class = "chomping" /\ confidence >= confidence_threshold
             THEN Returns(TRUE, data)
             ELSE Returns(FALSE, data)

\* variant of _process_prediction without its except clause
ProcessPrediction_NoExcept(result, confidence_threshold) ==
    ProcessPredictionBody(result, confidence_threshold)

\* _process_prediction(result): the except clause (lines 205-207) turns every
\* Exception into (False, default data)
ProcessPrediction(result, confidence_threshold) ==
    LET body == ProcessPredictionBody(result, confidence_threshold)
    IN  IF body.raised THEN Returns(FALSE, DefaultPrediction) ELSE body

\* variant of _on_prediction that consults the gate only on the frame that
\* opens a habit session
OnPredictionCalls_OnTransition(t, habit_detected) ==
    IF habit_detected /\ ~t.is_habit_active
    THEN << "update_habit_detection", "play_warning" >>
    ELSE << "update_habit_detection" >>

\* _on_prediction, lines 158-174: the calls it makes on the tracker (in
\* state t before the frame) and on the audio manager, in the order of the
\* code, for a frame that _process_prediction reports as habit_detected
OnPredictionCalls(t, habit_detected) ==
    IF habit_detected
    THEN << "update_habit_detection", "play_warning" >>
    ELSE << "update_habit_detection" >>

\* the sequence of calls made holds a call of callee
Made(made, callee) == \E i \in 1..Len(made) : made[i] = callee

\* the objects a specification does not exercise, as constructed
DisplayIdle ==
    /\ display = NewDisplayManager
    /\ loops = [ l \in Loops |-> LoopUnborn ]
    /\ callers = [ c \in Callers |-> CallerIdle ]
    /\ shown = NoShown
MonitorIdle ==
    /\ monitor = NewMonitor(DefaultThreshold)
    /\ last_prediction = NoPrediction
    /\ mon_log = NoMonLog
    /\ run = NoRun

\* ----------------------------------------------------------------- actions
Init ==
    /\ now = 0
    /\ stats_tracker = LoadStatistics(FreshTracker, NoFile)
    /\ stats_file = NoFile
    /\ phase = "updates"
    /\ end_time = None
    /\ ingest = IngestIdle
    /\ render = RenderIdle
    /\ committed = stats_tracker
    /\ seen = {}
    /\ audio_manager = NewAudioManager(TRUE, DefaultCooldown)
    /\ warning_lock = None
    /\ threads = [ th \in Threads |-> ThreadIdle ]
    /\ calls = <<>>
    /\ last_call = NoCall
    /\ last_op = NoOp
    /\ DisplayIdle
    /\ MonitorIdle

\* time passes between calls
Tick ==
    /\ now < MaxTime
    /\ now' = now + 1
    /\ UNCHANGED <<stats_tracker, stats_file, phase, end_time, last_op>>
    /\ UNCHANGED <<snap_vars, gate_vars, disp_vars, mon_vars>>

\* StatsTracker(stats_file): a new process constructs the tracker and loads
\* what the previous run saved.
Construct ==
    /\ stats_tracker' = LoadStatistics(FreshTracker, stats_file)
    /\ phase' = IF stats_file.exists THEN "other" ELSE "updates"
    /\ end_time' = None
    /\ last_op' = [ op |-> "construct", file |-> stats_file ]
    /\ UNCHANGED <<now, stats_file>>
    /\ UNCHANGED <<snap_vars, gate_vars, disp_vars, mon_vars>>

start_session ==
    /\ stats_tracker' = [ stats_tracker EXCEPT !.session_start_time = now ]
    /\ last_op' = NoOp
    /\ UNCHANGED <<now, stats_file, phase, end_time>>
    /\ UNCHANGED <<snap_vars, gate_vars, disp_vars, mon_vars>>

update_habit_detection ==
    /\ now < MaxTime
    /\ \E detected \in BOOLEAN, confidence \in Confidences, habit_class \in Classes :
          stats_tracker' = UpdateHabitDetection(stats_tracker, detected,
                                                confidence, habit_class, now)
    /\ phase' = IF phase = "updates" THEN "updates" ELSE "other"
    /\ now' = now + 1
    /\ last_op' = NoOp
    /\ UNCHANGED <<stats_file, end_time>>
    /\ UNCHANGED <<snap_vars, gate_vars, disp_vars, mon_vars>>

\* the history record of an end_session() call made at clock reading clock
\* on tracker pre, after which the tracker is post
EndSessionOp(prev, pre, post, clock, outcome) ==
    [ op      |-> "end_session",
      n       |-> IF prev.op = "end_session" THEN 2 ELSE 1,
      first   |-> IF prev.op = "end_session" THEN prev.first ELSE post,
      pre     |-> pre,
      clock   |-> clock,
      outcome |-> outcome,
      raised  |-> SaveRaises(outcome) ]

\* end_session(): closes an open habit session, then _save_statistics(),
\* whose write may fail (the exception is logged).
end_session ==
    /\ now < MaxTime
    /\ stats_tracker' = EndSession(stats_tracker, now)
    /\ \E outcome \in SaveOutcomes :
          /\ stats_file' = FileAfterSave(stats_tracker', stats_file, outcome)
          /\ last_op' = EndSessionOp(last_op, stats_tracker, stats_tracker', now, outcome)
    /\ phase' = IF phase = "updates" THEN "ended" ELSE "other"
    /\ end_time' = now
    /\ now' = now + 1
    /\ UNCHANGED <<snap_vars, gate_vars, disp_vars, mon_vars>>

\* get_current_stats(), also as get_formatted_stats() calls it: the dict is
\* computed from the fields and one clock reading
get_current_stats ==
    /\ stats_tracker' = TrackerAfterStats(stats_tracker, now)
    /\ last_op' = [ op     |-> "get_current_stats",
                    before |-> stats_tracker,
                    clock  |-> now,
                    stats  |-> GetCurrentStats(stats_tracker, now) ]
    /\ UNCHANGED <<now, stats_file, phase, end_time>>
    /\ UNCHANGED <<snap_vars, gate_vars, disp_vars, mon_vars>>

\* the statistics file is damaged between two runs (edited, cut short,
\* written by another program)
CorruptFile ==
    /\ stats_file.exists
    /\ stats_file.corrupt_at = "none"
    /\ \E point \in CorruptPoints :
          /\ CanCorrupt(stats_file, point)
          /\ stats_file' = Corrupted(stats_file, point)
    /\ UNCHANGED <<now, stats_tracker, phase, end_time, last_op>>
    /\ UNCHANGED <<snap_vars, gate_vars, disp_vars, mon_vars>>

reset_statistics ==
    /\ stats_tracker' = FreshTracker
    /\ phase' = "updates"
    /\ end_time' = None
    /\ last_op' = NoOp
    /\ UNCHANGED <<now, stats_file>>
    /\ UNCHANGED <<snap_vars, gate_vars, disp_vars, mon_vars>>

Next ==
    \/ Tick
    \/ Construct
    \/ start_session
    \/ update_habit_detection
    \/ end_session
    \/ get_current_stats
    \/ reset_statistics

Spec == Init /\ [][Next]_vars

\* ------------------------------------------------- saving and reloading
\* The statistics file between two runs: a tracker that has run a session
\* is saved by end_session(), the file may be damaged, and the next run's
\* constructor loads it.
MaxRunLen == 4

\* the tracker after update_habit_detection(detections[i]) at the clock
\* readings first, first + 1, ...
RECURSIVE TrackerAfterRun(_, _, _)
TrackerAfterRun(t, detections, first) ==
    IF detections = <<>>
    THEN t
    ELSE TrackerAfterRun(
             UpdateHabitDetection(t, Head(detections), 9, "chomping", first),
             Tail(detections), first + 1)

PersistRuns == UNION { [ 1..n -> BOOLEAN ] : n \in 0..MaxRunLen }

InitPersist ==
    /\ \E detections \in PersistRuns, started \in BOOLEAN :
          /\ stats_tracker =
                 TrackerAfterRun([ FreshTracker EXCEPT !.session_start_time =
                                                           IF started THEN 0 ELSE None ],
                                 detections, 0)
          /\ now = Len(detections)
    /\ stats_file = NoFile
    /\ phase = "other"
    /\ end_time = None
    /\ ingest = IngestIdle
    /\ render = RenderIdle
    /\ committed = stats_tracker
    /\ seen = {}
    /\ audio_manager = NewAudioManager(TRUE, DefaultCooldown)
    /\ warning_lock = None
    /\ threads = [ th \in Threads |-> ThreadIdle ]
    /\ calls = <<>>
    /\ last_call = NoCall
    /\ last_op = NoOp
    /\ DisplayIdle
    /\ MonitorIdle

NextPersist ==
    \/ end_session
    \/ CorruptFile
    \/ Construct

SpecPersist == InitPersist /\ [][NextPersist]_vars


\* ------------------------------------------- the cooldown gate, one caller
MaxGateTime == 6
MaxCalls == 4
InitCooldowns == {2, 5}
CooldownArgs == {-2, 0, 2}

GateFrame ==
    UNCHANGED <<stats_tracker, stats_file, phase, end_time, snap_vars,
                last_op, disp_vars, mon_vars>>

InitGate ==
    /\ now = 0
    /\ stats_tracker = FreshTracker
    /\ stats_file = NoFile
    /\ phase = "updates"
    /\ end_time = None
    /\ ingest = IngestIdle
    /\ render = RenderIdle
    /\ committed = stats_tracker
    /\ seen = {}
    /\ \E enabled \in BOOLEAN, cooldown_seconds \in InitCooldowns :
          audio_manager = NewAudioManager(enabled, cooldown_seconds)
    /\ warning_lock = None
    /\ threads = [ th \in Threads |-> ThreadIdle ]
    /\ calls = <<>>
    /\ last_call = NoCall
    /\ last_op = NoOp
    /\ DisplayIdle
    /\ MonitorIdle

GateTick ==
    /\ now < MaxGateTime
    /\ now' = now + 1
    /\ UNCHANGED gate_vars
    /\ GateFrame

play_warning ==
    /\ Len(calls) < MaxCalls
    /\ \E outcome \in SoundOutcomes :
          LET call == PlayWarning(audio_manager, now, outcome) IN
          /\ audio_manager' = call.am
          /\ calls' = Logged(calls, now, audio_manager.cooldown_seconds, call.result, FALSE)
    /\ last_call' = NoCall
    /\ UNCHANGED <<now, warning_lock, threads>>
    /\ GateFrame

test_audio ==
    /\ Len(calls) < MaxCalls
    /\ \E outcome \in SoundOutcomes :
          LET call == TestAudio(audio_manager, now, outcome) IN
          /\ audio_manager' = call.am
          /\ calls' = Logged(calls, now, 0, call.result, FALSE)
          /\ last_call' = [ op      |-> "test_audio",
                            before  |-> audio_manager,
                            time    |-> now,
                            outcome |-> outcome,
                            result  |-> call.result ]
    /\ UNCHANGED <<now, warning_lock, threads>>
    /\ GateFrame

set_cooldown ==
    /\ \E seconds \in CooldownArgs :
          /\ audio_manager' = SetCooldown(audio_manager, seconds)
          /\ last_call' = [ op |-> "set_cooldown", seconds |-> seconds ]
    /\ UNCHANGED <<now, warning_lock, threads, calls>>
    /\ GateFrame

set_enabled ==
    /\ \E enabled \in BOOLEAN :
          audio_manager' = SetEnabled(audio_manager, enabled)
    /\ last_call' = NoCall
    /\ UNCHANGED <<now, warning_lock, threads, calls>>
    /\ GateFrame

NextGate ==
    \/ GateTick
    \/ play_warning
    \/ test_audio
    \/ set_cooldown
    \/ set_enabled

SpecGate == InitGate /\ [][NextGate]_vars

\* ------------------------------------- the cooldown gate, several callers
\* play_warning and test_audio one statement at a time on each thread.
MaxConcTime == 2
MaxConcCalls == 2

ConcFrame ==
    UNCHANGED <<stats_tracker, stats_file, phase, end_time, snap_vars, last_call,
                last_op, disp_vars, mon_vars>>

\* what every step on the AudioManager leaves alone, the history of its
\* last call apart
TestFrame ==
    UNCHANGED <<stats_tracker, stats_file, phase, end_time, snap_vars,
                last_op, disp_vars, mon_vars>>

\* where play_warning returns to: its caller, or the finally of test_audio
AfterPlayWarning(t) ==
    IF t.in_test
    THEN [ t EXCEPT !.pc = "line130", !.current_time = None, !.met_cooldown = None ]
    ELSE ThreadIdle

Contended(th) == \E other \in Threads \ {th} : threads[other].pc = "line27"

ConcTick ==
    /\ now < MaxConcTime
    /\ now' = now + 1
    /\ UNCHANGED gate_vars
    /\ ConcFrame

\* a thread calls play_warning()
PwCall(th) ==
    /\ threads[th].pc = "idle"
    /\ Len(calls) < MaxConcCalls
    /\ threads' = [ threads EXCEPT ![th].pc = "line24" ]
    /\ UNCHANGED <<now, audio_manager, warning_lock, calls>>
    /\ ConcFrame

\* play_warning, lines 24-25
PwEnabled(th) ==
    /\ threads[th].pc = "line24"
    /\ threads' = [ threads EXCEPT ![th] =
                       IF ~audio_manager.enabled THEN AfterPlayWarning(@)
                       ELSE [ @ EXCEPT !.pc = "line27" ] ]
    /\ UNCHANGED <<now, audio_manager, warning_lock, calls>>
    /\ ConcFrame

\* play_warning, line 27: with self.warning_lock
PwAcquire(th) ==
    /\ threads[th].pc = "line27"
    /\ LockAvailable(warning_lock)
    /\ warning_lock' = th
    /\ threads' = [ threads EXCEPT ![th].pc = "line28" ]
    /\ UNCHANGED <<now, audio_manager, calls>>
    /\ ConcFrame

\* play_warning, lines 28-32: reads the clock; inside the cooldown period
\* it returns, which releases the lock
PwCheck(th) ==
    /\ threads[th].pc = "line28"
    /\ IF InCooldown(audio_manager, now)
       THEN /\ threads' = [ threads EXCEPT ![th] = AfterPlayWarning(@) ]
            /\ warning_lock' = None
            /\ calls' = Logged(calls, now, audio_manager.cooldown_seconds,
                               "cooldown", Contended(th))
       ELSE /\ threads' = [ threads EXCEPT ![th].pc = "line36",
                                            ![th].current_time = now,
                                            ![th].met_cooldown = audio_manager.cooldown_seconds ]
            /\ UNCHANGED <<warning_lock, calls>>
    /\ UNCHANGED <<now, audio_manager>>
    /\ ConcFrame

\* play_warning, lines 35-40: _play_sound, then last_warning_time, or the
\* except branch; leaving the with block releases the lock
PwPlay(th) ==
    /\ threads[th].pc = "line36"
    /\ \E outcome \in SoundOutcomes :
          IF outcome = "played"
          THEN /\ audio_manager' = [ audio_manager EXCEPT
                                       !.last_warning_time = threads[th].current_time ]
               /\ calls' = Logged(calls, threads[th].current_time,
                                  threads[th].met_cooldown, "fired", Contended(th))
          ELSE UNCHANGED <<audio_manager, calls>>
    /\ warning_lock' = None
    /\ threads' = [ threads EXCEPT ![th] = AfterPlayWarning(@) ]
    /\ UNCHANGED now
    /\ ConcFrame

\* a thread calls test_audio(): line 119
TaBegin(th) ==
    /\ threads[th].pc = "idle"
    /\ Len(calls) < MaxConcCalls
    /\ threads' = [ threads EXCEPT ![th] =
                       [ ThreadIdle EXCEPT !.pc = "line120", !.in_test = TRUE,
                           !.original_cooldown = audio_manager.cooldown_seconds ] ]
    /\ UNCHANGED <<now, audio_manager, warning_lock, calls>>
    /\ ConcFrame

\* test_audio, lines 120-123: cooldown 0, then into play_warning
TaZero(th) ==
    /\ threads[th].pc = "line120"
    /\ audio_manager' = [ audio_manager EXCEPT !.cooldown_seconds = 0 ]
    /\ threads' = [ threads EXCEPT ![th].pc = "line24" ]
    /\ UNCHANGED <<now, warning_lock, calls>>
    /\ ConcFrame

\* test_audio, line 130: the finally block
RestoreCooldown(th) ==
    /\ threads[th].pc = "line130"
    /\ audio_manager' = [ audio_manager EXCEPT
                            !.cooldown_seconds = threads[th].original_cooldown ]
    /\ threads' = [ threads EXCEPT ![th] = ThreadIdle ]
    /\ UNCHANGED <<now, warning_lock, calls>>
    /\ TestFrame

TaRestore(th) == RestoreCooldown(th) /\ UNCHANGED last_call

\* set_cooldown(seconds): one assignment
AssignCooldown ==
    /\ \E seconds \in CooldownArgs :
          audio_manager' = SetCooldown(audio_manager, seconds)
    /\ UNCHANGED <<now, warning_lock, threads, calls>>
    /\ TestFrame

ConcSetCooldown == AssignCooldown /\ UNCHANGED last_call

NextGateConc ==
    \/ ConcTick
    \/ \E th \in Threads : PwCall(th)
    \/ \E th \in Threads : PwEnabled(th)
    \/ \E th \in Threads : PwAcquire(th)
    \/ \E th \in Threads : PwCheck(th)
    \/ \E th \in Threads : PwPlay(th)
    \/ \E th \in Threads : TaBegin(th)
    \/ \E th \in Threads : TaZero(th)
    \/ \E th \in Threads : TaRestore(th)
    \/ ConcSetCooldown

SpecGateConc == InitGate /\ [][NextGateConc]_vars

\* ------------------------------------ test_audio beside the running gate
\* One thread runs test_audio() while the other calls play_warning() and
\* set_cooldown() is called from outside.  last_call is the history of the
\* last set_cooldown made while test_audio was running.
Tester == 1
Caller == 2

TsRestore(th) ==
    /\ RestoreCooldown(th)
    /\ last_call' = NoCall

TsSetCooldown ==
    /\ AssignCooldown
    /\ last_call' = IF threads[Tester].in_test
                    THEN [ op      |-> "set_cooldown",
                           seconds |-> audio_manager'.cooldown_seconds ]
                    ELSE last_call

NextTest ==
    \/ ConcTick
    \/ PwCall(Caller)
    \/ \E th \in Threads : PwEnabled(th)
    \/ \E th \in Threads : PwAcquire(th)
    \/ \E th \in Threads : PwCheck(th)
    \/ \E th \in Threads : PwPlay(th)
    \/ TaBegin(Tester)
    \/ TaZero(Tester)
    \/ TsRestore(Tester)
    \/ TsSetCooldown

SpecTest == InitGate /\ [][NextTest]_vars

\* ------------------------------------------------- the alert sink failing
\* play_warning as above up to line 36, then _play_sound one statement at
\* a time: the platform player, the except clause with the terminal bell,
\* and the two ways back through play_warning.  last_call is the history of
\* the call that holds warning_lock.
SinkFrame ==
    UNCHANGED <<stats_tracker, stats_file, phase, end_time, snap_vars,
                last_op, disp_vars, mon_vars>>

\* history: the call recorded in c, or a call before it, had its platform
\* player raise
SinkFailed(c) ==
    c.op = "play_warning" /\ (c.sink = "raised" \/ c.after_failure)

\* _play_sound, lines 44-50: the platform player runs
PsPlatform(th) ==
    /\ threads[th].pc = "line36"
    /\ \E sink \in SinkOutcomes :
          /\ threads' = [ threads EXCEPT ![th].pc = AfterSink(sink) ]
          /\ last_call' = [ op            |-> "play_warning",
                            thread        |-> th,
                            sink          |-> sink,
                            bell          |-> "unused",
                            bell_emitted  |-> FALSE,
                            returned      |-> FALSE,
                            raised        |-> FALSE,
                            after_failure |-> SinkFailed(last_call) ]
    /\ UNCHANGED <<now, audio_manager, warning_lock, calls>>
    /\ SinkFrame

\* _play_sound, lines 51-54: print("\a") and the warning in the log
PsBell(th) ==
    /\ threads[th].pc = "line52"
    /\ \E bell \in BellOutcomes :
          /\ threads' = [ threads EXCEPT ![th].pc = AfterBell(bell) ]
          /\ last_call' = [ last_call EXCEPT !.bell = bell,
                                             !.bell_emitted = (bell = "bell") ]
    /\ UNCHANGED <<now, audio_manager, warning_lock, calls>>
    /\ SinkFrame

\* play_warning, line 38 (last_warning_time) or lines 39-40 (the error in
\* the log), then out of the with block, which releases the lock
PsReturn(th) ==
    /\ threads[th].pc \in {"line38", "line40"}
    /\ IF threads[th].pc = "line38"
       THEN /\ audio_manager' = [ audio_manager EXCEPT
                                    !.last_warning_time = threads[th].current_time ]
            /\ calls' = Logged(calls, threads[th].current_time,
                               threads[th].met_cooldown, "fired", Contended(th))
       ELSE UNCHANGED <<audio_manager, calls>>
    /\ last_call' = [ last_call EXCEPT !.returned = TRUE,
                                       !.raised = PlayWarningRaises(threads[th].pc) ]
    /\ warning_lock' = IF last_call'.raised THEN warning_lock ELSE None
    /\ threads' = [ threads EXCEPT ![th] = AfterPlayWarning(@) ]
    /\ UNCHANGED now
    /\ SinkFrame

NextSink ==
    \/ ConcTick
    \/ \E th \in Threads : PwCall(th)
    \/ \E th \in Threads : PwEnabled(th)
    \/ \E th \in Threads : PwAcquire(th)
    \/ \E th \in Threads : PwCheck(th)
    \/ \E th \in Threads : PsPlatform(th)
    \/ \E th \in Threads : PsBell(th)
    \/ \E th \in Threads : PsReturn(th)

SpecSink == InitGate /\ [][NextSink]_vars

\* ------------------------------------------- ingestion and render threads
\* The tracker calls of the ingestion thread one statement at a time, and
\* get_current_stats() on the render thread one dict key at a time: the
\* tracker takes no lock, so the statements of the two threads interleave.
MaxSnapTime == 3

\* the part of the tracker a snapshot copies
View(t) ==
    [ total_detections       |-> t.total_detections,
      total_habit_time       |-> t.total_habit_time,
      current_habit_duration |-> t.current_habit_duration,
      habit_sessions_count   |-> Len(t.habit_sessions),
      is_habit_active        |-> t.is_habit_active ]

SnapshotView(stats) ==
    [ total_detections       |-> stats.total_detections,
      total_habit_time       |-> stats.total_habit_time,
      current_habit_duration |-> stats.current_habit_duration,
      habit_sessions_count   |-> stats.habit_sessions_count,
      is_habit_active        |-> stats.is_habit_active ]

\* a tracker call or the transition inside it has completed, leaving tracker t
Completes(t) ==
    /\ committed' = t
    /\ seen' = IF render.pc = 0 THEN seen ELSE seen \cup {View(t)}

SnapFrame == UNCHANGED <<phase, end_time, gate_vars, last_op, disp_vars, mon_vars>>

SnapTick ==
    /\ now < MaxSnapTime
    /\ now' = now + 1
    /\ UNCHANGED <<stats_tracker, stats_file, snap_vars>>
    /\ SnapFrame

\* start_session(): one assignment
IngStartSession ==
    /\ ingest.pc = "idle"
    /\ now < MaxSnapTime
    /\ stats_tracker' = [ stats_tracker EXCEPT !.session_start_time = now ]
    /\ now' = now + 1
    /\ Completes(stats_tracker')
    /\ UNCHANGED <<stats_file, ingest, render>>
    /\ SnapFrame

\* update_habit_detection, lines 50-68: reads the clock, records the event
\* and picks the branch
IngUpdateBegin ==
    /\ ingest.pc = "idle"
    /\ now < MaxSnapTime
    /\ \E detected \in BOOLEAN, confidence \in Confidences, habit_class \in Classes :
          /\ stats_tracker' =
                [ stats_tracker EXCEPT !.detection_history =
                    Append(@, [ timestamp  |-> now,
                                detected   |-> detected,
                                confidence |-> confidence,
                                class      |-> habit_class ]) ]
          /\ ingest' = [ IngestIdle EXCEPT
                !.timestamp = now,
                !.caller = "update_habit_detection",
                !.pc = IF detected /\ ~stats_tracker.is_habit_active THEN "line74"
                       ELSE IF ~detected /\ stats_tracker.is_habit_active THEN "line82"
                       ELSE IF detected /\ stats_tracker.is_habit_active THEN "line107"
                       ELSE "idle" ]
    /\ now' = now + 1
    /\ IF ingest'.pc = "idle"
       THEN Completes(stats_tracker')
       ELSE UNCHANGED <<committed, seen>>
    /\ UNCHANGED <<stats_file, render>>
    /\ SnapFrame

\* _start_habit_session, lines 74, 75, 76
IngStartHabit ==
    /\ ingest.pc \in {"line74", "line75", "line76"}
    /\ stats_tracker' =
          CASE ingest.pc = "line74" ->
                 [ stats_tracker EXCEPT !.habit_start_time = ingest.timestamp ]
            [] ingest.pc = "line75" ->
                 [ stats_tracker EXCEPT !.is_habit_active = TRUE ]
            [] ingest.pc = "line76" ->
                 [ stats_tracker EXCEPT !.total_detections = @ + 1 ]
    /\ ingest' = CASE ingest.pc = "line74" -> [ ingest EXCEPT !.pc = "line75" ]
                   [] ingest.pc = "line75" -> [ ingest EXCEPT !.pc = "line76" ]
                   [] ingest.pc = "line76" -> IngestIdle
    /\ IF ingest'.pc = "idle"
       THEN Completes(stats_tracker')
       ELSE UNCHANGED <<committed, seen>>
    /\ UNCHANGED <<now, stats_file, render>>
    /\ SnapFrame

\* where _end_habit_session returns to
AfterEndHabit == IF ingest.caller = "end_session"
                 THEN [ IngestIdle EXCEPT !.pc = "save", !.caller = "end_session" ]
                 ELSE IngestIdle

\* _end_habit_session, lines 82-86: the guard, then the locals end_time
\* (timestamp or datetime.now()) and session_duration
IngEndHabitBegin ==
    /\ ingest.pc = "line82"
    /\ IF ~stats_tracker.is_habit_active \/ stats_tracker.habit_start_time = None
       THEN /\ ingest' = AfterEndHabit
            /\ Completes(stats_tracker)
       ELSE /\ LET end == IF ingest.timestamp # None THEN ingest.timestamp ELSE now IN
               ingest' = [ ingest EXCEPT
                             !.pc = "line89",
                             !.end_time = end,
                             !.session_duration = end - stats_tracker.habit_start_time ]
            /\ UNCHANGED <<committed, seen>>
    /\ UNCHANGED <<now, stats_tracker, stats_file, render>>
    /\ SnapFrame

\* _end_habit_session, lines 89, 96, 99, 100, 101
IngEndHabit ==
    /\ ingest.pc \in {"line89", "line96", "line99", "line100", "line101"}
    /\ stats_tracker' =
          CASE ingest.pc = "line89" ->
                 [ stats_tracker EXCEPT !.habit_sessions =
                     Append(@, [ start_time |-> stats_tracker.habit_start_time,
                                 end_time   |-> ingest.end_time,
                                 duration   |-> ingest.session_duration ]) ]
            [] ingest.pc = "line96" ->
                 [ stats_tracker EXCEPT !.total_habit_time = @ + ingest.session_duration ]
            [] ingest.pc = "line99" ->
                 [ stats_tracker EXCEPT !.is_habit_active = FALSE ]
            [] ingest.pc = "line100" ->
                 [ stats_tracker EXCEPT !.current_habit_duration = 0 ]
            [] ingest.pc = "line101" ->
                 [ stats_tracker EXCEPT !.habit_start_time = None ]
    /\ ingest' = CASE ingest.pc = "line89"  -> [ ingest EXCEPT !.pc = "line96" ]
                   [] ingest.pc = "line96"  -> [ ingest EXCEPT !.pc = "line99" ]
                   [] ingest.pc = "line99"  -> [ ingest EXCEPT !.pc = "line100" ]
                   [] ingest.pc = "line100" -> [ ingest EXCEPT !.pc = "line101" ]
                   [] ingest.pc = "line101" -> AfterEndHabit
    /\ IF ingest.pc = "line101"
       THEN Completes(stats_tracker')
       ELSE UNCHANGED <<committed, seen>>
    /\ UNCHANGED <<now, stats_file, render>>
    /\ SnapFrame

\* _update_current_habit_duration, lines 107-108
IngUpdateDuration ==
    /\ ingest.pc = "line107"
    /\ stats_tracker' = UpdateCurrentHabitDuration(stats_tracker, ingest.timestamp)
    /\ ingest' = IngestIdle
    /\ Completes(stats_tracker')
    /\ UNCHANGED <<now, stats_file, render>>
    /\ SnapFrame

\* end_session, line 40
IngEndSessionBegin ==
    /\ ingest.pc = "idle"
    /\ now < MaxSnapTime
    /\ ingest' = [ IngestIdle EXCEPT
                     !.caller = "end_session",
                     !.pc = IF stats_tracker.is_habit_active THEN "line82" ELSE "save" ]
    /\ now' = now + 1
    /\ UNCHANGED <<stats_tracker, stats_file, render, committed, seen>>
    /\ SnapFrame

\* end_session, line 44: _save_statistics(), whose write may fail
IngSave ==
    /\ ingest.pc = "save"
    /\ \E outcome \in SaveOutcomes :
          stats_file' = FileAfterSave(stats_tracker, stats_file, outcome)
    /\ ingest' = IngestIdle
    /\ UNCHANGED <<now, stats_tracker, render, committed, seen>>
    /\ SnapFrame

\* the render thread enters get_current_stats()
RenderBegin ==
    /\ render.pc = 0
    /\ render' = [ pc |-> 1, stats |-> EmptyStats ]
    /\ seen' = {View(committed)}
    /\ UNCHANGED <<now, stats_tracker, stats_file, ingest, committed>>
    /\ SnapFrame

\* get_current_stats(), lines 154-162: the next key of the dict
RenderRead ==
    /\ render.pc \in 1..Len(StatsKeys)
    /\ render' = [ pc    |-> render.pc + 1,
                   stats |-> [ render.stats EXCEPT ![StatsKeys[render.pc]] =
                                 StatsValue(StatsKeys[render.pc], stats_tracker, now) ] ]
    /\ UNCHANGED <<now, stats_tracker, stats_file, ingest, committed, seen>>
    /\ SnapFrame

\* get_current_stats() returns the dict to the renderer
RenderReturn ==
    /\ render.pc = ReturnPc
    /\ render' = RenderIdle
    /\ UNCHANGED <<now, stats_tracker, stats_file, ingest, committed, seen>>
    /\ SnapFrame

NextSnap ==
    \/ SnapTick
    \/ IngStartSession
    \/ IngUpdateBegin
    \/ IngStartHabit
    \/ IngEndHabitBegin
    \/ IngEndHabit
    \/ IngUpdateDuration
    \/ IngEndSessionBegin
    \/ IngSave
    \/ RenderBegin
    \/ RenderRead
    \/ RenderReturn

SpecSnap == Init /\ [][NextSnap]_vars

\* --------------------------------------------- the render loop's lifecycle
\* start_display(), stop_display() and _display_loop statement by statement:
\* DisplayManager has no lock, so the calling threads and the loop threads
\* interleave between any two statements.
DispFrame ==
    UNCHANGED <<now, stats_tracker, stats_file, phase, end_time, snap_vars,
                gate_vars, last_op, mon_vars>>

OthersIdle(c) == \A c2 \in Callers \ {c} : callers[c2].pc = "idle"

InStart == {"start36", "start37", "start39"}

\* the calling threads when thread c begins a call and is left as rec
Begin(c, rec) ==
    [ c2 \in Callers |->
        IF c2 = c THEN rec
        ELSE IF callers[c2].pc # "idle" THEN [ callers[c2] EXCEPT !.alone = FALSE ]
        ELSE callers[c2] ]

\* thread c returns from stop_display(), or leaves it with join's RuntimeError
StopReturn(c, error) ==
    /\ callers' = [ callers EXCEPT ![c] = CallerIdle ]
    /\ shown' = [ shown EXCEPT
                    !.stopped = ~error /\ \A c2 \in Callers \ {c} : callers[c2].pc \notin InStart,
                    !.last_stop = [ op          |-> "stop",
                                    pre_running |-> callers[c].pre_running,
                                    pre_created |-> callers[c].pre_created,
                                    alone       |-> callers[c].alone,
                                    error       |-> error ] ]

\* line 33: if self.running: return
StartDisplay33(c) ==
    /\ callers[c].pc = "idle"
    /\ \/ display.running
       \/ Cardinality({ l \in Loops : loops[l].pc = "unborn" })
            > Cardinality({ c2 \in Callers : callers[c2].pc \in {"start36", "start37"} })
    /\ callers' = Begin(c, IF display.running
                           THEN CallerIdle
                           ELSE [ CallerIdle EXCEPT !.pc = "start36",
                                                    !.alone = OthersIdle(c),
                                                    !.pre_running = display.running,
                                                    !.pre_created = NumCreated(loops) ])
    /\ shown' = [ shown EXCEPT !.stopped = FALSE, !.last_stop = [ op |-> "none" ],
                                !.overlap = @ \/ ~OthersIdle(c) ]
    /\ UNCHANGED <<display, loops>>
    /\ DispFrame

\* line 36: self.running = True
StartDisplay36(c) ==
    /\ callers[c].pc = "start36"
    /\ display' = [ display EXCEPT !.running = TRUE ]
    /\ callers' = [ callers EXCEPT ![c].pc = "start37" ]
    /\ UNCHANGED <<loops, shown>>
    /\ DispFrame

\* lines 37-38: self.display_thread = threading.Thread(target=self._display_loop)
StartDisplay37(c) ==
    /\ callers[c].pc = "start37"
    /\ LET l == CHOOSE l \in Loops :
                    /\ loops[l].pc = "unborn"
                    /\ \A l2 \in Loops : loops[l2].pc = "unborn" => l <= l2
       IN  /\ loops' = [ loops EXCEPT ![l].pc = "created" ]
           /\ display' = [ display EXCEPT !.display_thread = l ]
    /\ callers' = [ callers EXCEPT ![c].pc = "start39" ]
    /\ UNCHANGED shown
    /\ DispFrame

\* line 39: self.display_thread.start(), which raises RuntimeError when the
\* thread self.display_thread now names was started already
StartDisplay39(c) ==
    /\ callers[c].pc = "start39"
    /\ loops' = IF loops[display.display_thread].pc = "created"
                THEN [ loops EXCEPT ![display.display_thread].pc = "check" ]
                ELSE loops
    /\ callers' = [ callers EXCEPT ![c] = CallerIdle ]
    /\ UNCHANGED <<display, shown>>
    /\ DispFrame

\* line 45: self.running = False
StopDisplay45(c) ==
    /\ callers[c].pc = "idle"
    /\ display' = StopSignal(display)
    /\ loops' = [ l \in Loops |->
                    IF loops[l].pc \in Alive /\ ~display'.running
                    THEN [ loops[l] EXCEPT !.signalled = TRUE ]
                    ELSE loops[l] ]
    /\ callers' = Begin(c, [ CallerIdle EXCEPT !.pc = "stop46",
                                               !.alone = OthersIdle(c),
                                               !.pre_running = display.running,
                                               !.pre_created = NumCreated(loops) ])
    /\ shown' = [ shown EXCEPT !.last_stop = [ op |-> "none" ],
                                !.overlap = @ \/ ~OthersIdle(c) ]
    /\ DispFrame

\* line 46: if self.display_thread:
StopDisplay46(c) ==
    /\ callers[c].pc = "stop46"
    /\ IF display.display_thread = None
       THEN StopReturn(c, FALSE)
       ELSE /\ callers' = [ callers EXCEPT ![c].pc = "stop47" ]
            /\ UNCHANGED shown
    /\ UNCHANGED <<display, loops>>
    /\ DispFrame

\* line 47: self.display_thread.join(timeout=2) begins; join raises
\* RuntimeError on a thread that was not started
StopDisplay47(c) ==
    /\ callers[c].pc = "stop47"
    /\ IF loops[display.display_thread].pc = "created"
       THEN StopReturn(c, TRUE)
       ELSE /\ callers' = [ callers EXCEPT ![c].pc = "join",
                                           ![c].target = display.display_thread ]
            /\ UNCHANGED shown
    /\ UNCHANGED <<display, loops>>
    /\ DispFrame

\* join returns because the thread has terminated
JoinDone(c) ==
    /\ callers[c].pc = "join"
    /\ loops[callers[c].target].pc = "done"
    /\ StopReturn(c, FALSE)
    /\ UNCHANGED <<display, loops>>
    /\ DispFrame

\* join returns because two seconds have passed and the thread is still in
\* its tick or its sleep
JoinTimeout(c) ==
    /\ callers[c].pc = "join"
    /\ loops[callers[c].target].pc \in Alive
    /\ StopReturn(c, FALSE)
    /\ UNCHANGED <<display, loops>>
    /\ DispFrame

\* line 58: while self.running
LoopCheck(l) ==
    /\ loops[l].pc = "check"
    /\ IF display.running
       THEN /\ loops' = [ loops EXCEPT ![l].pc = "render" ]
            /\ shown' = [ shown EXCEPT !.late_tick = @ \/ loops[l].signalled ]
       ELSE /\ loops' = [ loops EXCEPT ![l].pc = "done", ![l].saw_stop = TRUE ]
            /\ UNCHANGED shown
    /\ UNCHANGED <<display, callers>>
    /\ DispFrame

\* lines 59-64: one tick, _render_dashboard() printing the dashboard or
\* raising
LoopTick(l) ==
    /\ loops[l].pc = "render"
    /\ \E outcome \in TickOutcomes :
          /\ loops' = [ loops EXCEPT ![l].pc = AfterTick(outcome),
                                     ![l].failed = @ \/ outcome = "raised" ]
          /\ shown' = [ shown EXCEPT !.stray = @ \/ (shown.stopped /\ outcome = "ok") ]
    /\ UNCHANGED <<display, callers>>
    /\ DispFrame

\* lines 61 and 64: time.sleep returns
LoopWake(l) ==
    /\ loops[l].pc \in {"sleep", "backoff"}
    /\ loops' = [ loops EXCEPT ![l].pc = "check" ]
    /\ UNCHANGED <<display, callers, shown>>
    /\ DispFrame

NextDisplay ==
    \/ \E c \in Callers : StartDisplay33(c)
    \/ \E c \in Callers : StartDisplay36(c)
    \/ \E c \in Callers : StartDisplay37(c)
    \/ \E c \in Callers : StartDisplay39(c)
    \/ \E c \in Callers : StopDisplay45(c)
    \/ \E c \in Callers : StopDisplay46(c)
    \/ \E c \in Callers : StopDisplay47(c)
    \/ \E c \in Callers : JoinDone(c)
    \/ \E c \in Callers : JoinTimeout(c)
    \/ \E l \in Loops : LoopCheck(l)
    \/ \E l \in Loops : LoopTick(l)
    \/ \E l \in Loops : LoopWake(l)

SpecDisplay == Init /\ [][NextDisplay]_vars

\* ------------------------------------------------- the ingestion callback
MaxMonTime == 2
MonCooldowns == {1, DefaultCooldown}

\* the arguments a caller may construct a HabitMonitor with: thresholds
\* (tenths) and cooldowns (seconds), in and out of range
ThresholdArgs == {-2, 0, DefaultThreshold, 17}
MonCooldownArgs == {-3, 1, DefaultCooldown}

MonFrame ==
    UNCHANGED <<phase, end_time, snap_vars, warning_lock, threads,
                calls, last_call, disp_vars>>

\* HabitMonitor.__init__: the threshold and the cooldown come from the
\* configuration
InitMon ==
    /\ now = 0
    /\ stats_tracker = LoadStatistics(FreshTracker, NoFile)
    /\ stats_file = NoFile
    /\ phase = "updates"
    /\ end_time = None
    /\ ingest = IngestIdle
    /\ render = RenderIdle
    /\ committed = stats_tracker
    /\ seen = {}
    /\ \E cooldown_seconds \in MonCooldowns :
          audio_manager = NewAudioManager(TRUE, cooldown_seconds)
    /\ warning_lock = None
    /\ threads = [ th \in Threads |-> ThreadIdle ]
    /\ calls = <<>>
    /\ last_call = NoCall
    /\ last_op = NoOp
    /\ DisplayIdle
    /\ \E confidence_threshold \in Thresholds :
          monitor = NewMonitor(confidence_threshold)
    /\ last_prediction = NoPrediction
    /\ mon_log = NoMonLog
    /\ run = NoRun

MonTick ==
    /\ now < MaxMonTime
    /\ now' = now + 1
    /\ UNCHANGED <<stats_tracker, stats_file, audio_manager, last_op, mon_vars>>
    /\ MonFrame

\* HabitMonitor(workspace, workflow, confidence_threshold, config=...) is
\* called before monitoring is started.  When __init__ raises, no object
\* comes into being and the ones there are stay; otherwise the new monitor
\* has its own AudioManager and a StatsTracker that has loaded the
\* statistics file.
monitor_init ==
    /\ ~monitor.pipeline
    /\ \E confidence_threshold \in ThresholdArgs, cooldown_seconds \in MonCooldownArgs,
          api_key \in BOOLEAN :
          LET new == MonitorInit(confidence_threshold, cooldown_seconds, api_key)
          IN  /\ mon_log' = [ mon_log EXCEPT
                                !.init = [ op                   |-> "init",
                                           confidence_threshold |-> confidence_threshold,
                                           cooldown_seconds     |-> cooldown_seconds,
                                           raised               |-> new.raised,
                                           created              |-> new.created ] ]
              /\ IF new.raised
                 THEN UNCHANGED <<monitor, audio_manager, stats_tracker, last_op,
                                  last_prediction>>
                 ELSE /\ monitor' = new.monitor
                      /\ audio_manager' = new.audio_manager
                      /\ stats_tracker' = LoadStatistics(FreshTracker, stats_file)
                      /\ last_op' = [ op |-> "construct", file |-> stats_file ]
                      /\ last_prediction' = NoPrediction
    /\ UNCHANGED <<now, stats_file, run>>
    /\ MonFrame

\* start_monitoring() up to pipeline.start() (lines 111-141): nothing when
\* monitoring runs already; InferencePipeline.init_with_workflow may raise,
\* and then the finally clause finds is_monitoring False.  The call then
\* blocks in pipeline.join() while the callbacks arrive.
StartOutcomes == {"started", "init_failed"}
start_monitoring ==
    /\ \E outcome \in StartOutcomes :
          IF monitor.is_monitoring \/ outcome = "init_failed"
          THEN UNCHANGED <<monitor, stats_tracker, last_op>>
          ELSE /\ monitor' = [ monitor EXCEPT !.pipeline = TRUE, !.is_monitoring = TRUE ]
               /\ stats_tracker' = [ stats_tracker EXCEPT !.session_start_time = now ]
               /\ last_op' = NoOp
    /\ mon_log' = [ mon_log EXCEPT !.init = [ op |-> "none" ] ]
    /\ UNCHANGED <<now, stats_file, audio_manager, last_prediction, run>>
    /\ MonFrame

\* _on_prediction(result, _video_frame): the pipeline calls it for one frame
\* at a time.  An Exception raised in the try block (lines 155-174) is
\* logged by the except clause (176-177) and the callback returns.
on_prediction ==
    /\ now < MaxMonTime
    /\ monitor.pipeline
    /\ \E result \in Payloads, outcome \in SoundOutcomes :
          LET p  == ProcessPrediction(result, monitor.confidence_threshold)
              pw == PlayWarning(audio_manager, now, outcome)
              made == IF p.raised THEN <<>>
                      ELSE OnPredictionCalls(stats_tracker, p.detected)
          IN  /\ stats_tracker' =
                    IF Made(made, "update_habit_detection")
                    THEN UpdateHabitDetection(stats_tracker, p.detected,
                                              p.data.confidence, p.data.top_class, now)
                    ELSE stats_tracker
              /\ audio_manager' = IF Made(made, "play_warning") THEN pw.am
                                  ELSE audio_manager
              /\ monitor' = IF ~p.raised /\ p.detected
                            THEN [ monitor EXCEPT !.last_detection_time = now ]
                            ELSE monitor
              /\ last_prediction' = [ op             |-> "on_prediction",
                                      result         |-> result,
                                      process_raised |-> p.raised,
                                      detected       |-> p.detected,
                                      data           |-> p.data,
                                      made           |-> made,
                                      raised         |-> FALSE ]
    /\ last_op' = NoOp
    /\ now' = now + 1
    /\ UNCHANGED <<stats_file, mon_log, run>>
    /\ MonFrame

\* stop_monitoring(), called by the finally clause of start_monitoring or
\* by the signal handler: nothing when is_monitoring is False; otherwise
\* is_monitoring = False, pipeline.terminate() (its Exception is logged),
\* no display call (display_enabled is False), end_session(), and the
\* closing log lines unless end_session raised.
StopMonitoring ==
    /\ now < MaxMonTime
    /\ IF ~monitor.is_monitoring
       THEN /\ mon_log' = [ mon_log EXCEPT !.stop = "completed", !.ran = FALSE ]
            /\ UNCHANGED <<monitor, stats_tracker, stats_file, last_op>>
       ELSE /\ monitor' = [ monitor EXCEPT !.is_monitoring = FALSE ]
            /\ stats_tracker' = EndSession(stats_tracker, now)
            /\ \E outcome \in SaveOutcomes :
                  /\ stats_file' = FileAfterSave(stats_tracker', stats_file, outcome)
                  /\ last_op' = EndSessionOp(last_op, stats_tracker, stats_tracker',
                                             now, outcome)
                  /\ mon_log' = [ mon_log EXCEPT
                                    !.stop = IF SaveRaises(outcome)
                                             THEN "raised" ELSE "completed",
                                    !.ran = TRUE,
                                    !.saved = (outcome = "saved") ]
    /\ now' = now + 1
    /\ UNCHANGED <<audio_manager, last_prediction>>
    /\ MonFrame

\* stop_monitoring() called from outside start_monitoring()
stop_monitoring == StopMonitoring /\ UNCHANGED run

NextMon ==
    \/ MonTick
    \/ monitor_init
    \/ start_monitoring
    \/ on_prediction
    \/ stop_monitoring

SpecMon == InitMon /\ [][NextMon]_vars

\* ------------------------------------------------ one run of the monitor
\* The main thread inside start_monitoring(), one statement at a time, with
\* the callbacks of the pipeline while it is blocked in join() and with the
\* signal handler (SIGINT, SIGTERM: lines 67-68), which Python runs in the
\* main thread between two statements.
RunFrame ==
    /\ UNCHANGED <<audio_manager, last_prediction, mon_log>>
    /\ MonFrame

\* the positions inside the try block of start_monitoring
TryBody == {"line119", "line129", "line137", "line142"}

\* how pipeline.join() ends: the pipeline ends, or the call raises
JoinOutcomes == {"ended", "Exception", "KeyboardInterrupt"}

\* run after a stop_monitoring() call that leaves mon_log as log
AfterStop(r, log, pc, pending) ==
    [ r EXCEPT !.pc = pc, !.pending = pending,
               !.ended = IF log.ran THEN @ + 1 ELSE @ ]

\* start_monitoring(), lines 111-113
RunCall ==
    /\ run.pc \in {"idle", "exited"}
    /\ run' = IF monitor.is_monitoring
              THEN [ NoRun EXCEPT !.pc = "exited" ]
              ELSE [ NoRun EXCEPT !.pc = "line119" ]
    /\ UNCHANGED <<now, monitor, stats_tracker, stats_file, last_op>>
    /\ RunFrame

\* lines 119-126: InferencePipeline.init_with_workflow returns the pipeline
\* or raises; `except Exception` logs and raises again
RunPipelineInit ==
    /\ run.pc = "line119"
    /\ \E outcome \in StartOutcomes :
          IF outcome = "started"
          THEN /\ monitor' = [ monitor EXCEPT !.pipeline = TRUE ]
               /\ run' = [ run EXCEPT !.pc = "line129" ]
          ELSE /\ run' = [ run EXCEPT !.pc = "finally", !.pending = "Exception" ]
               /\ UNCHANGED monitor
    /\ UNCHANGED <<now, stats_tracker, stats_file, last_op>>
    /\ RunFrame

\* line 129: stats_tracker.start_session()
RunStartSession ==
    /\ run.pc = "line129"
    /\ stats_tracker' = [ stats_tracker EXCEPT !.session_start_time = now ]
    /\ last_op' = NoOp
    /\ run' = [ run EXCEPT !.pc = "line137", !.started = @ + 1 ]
    /\ UNCHANGED <<now, monitor, stats_file>>
    /\ RunFrame

\* lines 132-141: no display (display_enabled is False), is_monitoring =
\* True, pipeline.start()
RunSetMonitoring ==
    /\ run.pc = "line137"
    /\ monitor' = [ monitor EXCEPT !.is_monitoring = TRUE ]
    /\ run' = [ run EXCEPT !.pc = "line142" ]
    /\ UNCHANGED <<now, stats_tracker, stats_file, last_op>>
    /\ RunFrame

\* the pipeline delivers a frame while the main thread is in join()
RunCallback ==
    /\ run.pc = "line142"
    /\ on_prediction

\* line 142: pipeline.join() returns or raises; KeyboardInterrupt is logged
\* at line 145, an Exception is logged and raised again (146-148)
RunJoin ==
    /\ run.pc = "line142"
    /\ \E outcome \in JoinOutcomes :
          run' = [ run EXCEPT !.pc = "finally",
                              !.pending = IF outcome = "Exception"
                                          THEN "Exception" ELSE "none" ]
    /\ UNCHANGED <<now, monitor, stats_tracker, stats_file, last_op>>
    /\ RunFrame

\* a signal arrives while the main thread is in the try block:
\* _signal_handler calls stop_monitoring() and sys.exit(0), whose SystemExit
\* leaves the try block through the finally clause
RunSignal ==
    /\ run.pc \in TryBody
    /\ StopMonitoring
    /\ run' = AfterStop(run, mon_log', "finally", "SystemExit")

\* lines 149-150: the finally clause calls stop_monitoring(); the pending
\* exception, if any, then leaves start_monitoring
RunFinally ==
    /\ run.pc = "finally"
    /\ StopMonitoring
    /\ run' = AfterStop(run, mon_log', "exited", run.pending)

NextRun ==
    \/ RunCall
    \/ RunPipelineInit
    \/ RunStartSession
    \/ RunSetMonitoring
    \/ RunCallback
    \/ RunJoin
    \/ RunSignal
    \/ RunFinally

SpecRun == InitMon /\ [][NextRun]_vars



\* ========================================================== properties
\* the frames that begin a maximal run of detected = true
RunStarts(h) ==
    { i \in 1..Len(h) : h[i].detected /\ (i = 1 \/ ~h[i-1].detected) }

\* the end of the run that begins at frame i: the first false frame after
\* it, or endT for a trailing run
RunEnd(h, i, endT) ==
    LET later == { j \in (i+1)..Len(h) : ~h[j].detected } IN
    IF later = {} THEN endT
    ELSE h[CHOOSE j \in later : \A k \in later : j <= k].timestamp

\* the sum of (end - start) over the runs that begin at the frames in S
RECURSIVE SumOfRuns(_, _, _)
SumOfRuns(h, S, endT) ==
    IF S = {} THEN 0
    ELSE LET i == CHOOSE j \in S : TRUE IN
         (RunEnd(h, i, endT) - h[i].timestamp) + SumOfRuns(h, S \ {i}, endT)

ExpectedHabitTime(h, endT) == SumOfRuns(h, RunStarts(h), endT)

ExpectedSessions(h, endT) ==
    LET S == RunStarts(h)
        Kth(k) == CHOOSE i \in S : Cardinality({ j \in S : j < i }) = k - 1
    IN  [ k \in 1..Cardinality(S) |->
            [ start_time |-> h[Kth(k)].timestamp,
              end_time   |-> RunEnd(h, Kth(k), endT),
              duration   |-> RunEnd(h, Kth(k), endT) - h[Kth(k)].timestamp ] ]

Detected(h) == [ i \in 1..Len(h) |-> h[i].detected ]
Timestamps(h) == [ i \in 1..Len(h) |-> h[i].timestamp ]

\* C1: after updates on a fresh tracker followed by end_session(),
\* total_habit_time is the sum of (end - start) over the maximal runs of
\* detected = true, a trailing run ending at the end_session time.
C1_TotalHabitTimeIsSumOfRuns ==
    phase = "ended" =>
        stats_tracker.total_habit_time =
            ExpectedHabitTime(stats_tracker.detection_history, end_time)

C1_Witness ==
    /\ phase = "ended"
    /\ Cardinality(RunStarts(stats_tracker.detection_history)) >= 2
    /\ stats_tracker.detection_history[Len(stats_tracker.detection_history)].detected
    /\ stats_tracker.total_habit_time >= 3

\* C2: on a fresh tracker total_detections is the number of false->true
\* transitions of the detected flag, a leading true counting as one; frames
\* that continue a run do not count.
C2_DetectionsCountTransitions ==
    phase \in {"updates", "ended"} =>
        stats_tracker.total_detections =
            Cardinality(RunStarts(stats_tracker.detection_history))

C2_Witness ==
    /\ phase = "updates"
    /\ stats_tracker.total_detections = 2
    /\ Len(stats_tracker.detection_history) = 5
    /\ stats_tracker.detection_history[1].detected
    /\ stats_tracker.detection_history[2].detected

\* C3: end_session() closes an open habit session at the current time and
\* appends it, so that habit_sessions holds exactly one entry per maximal
\* run of detected = true, in order, and no session stays open.
C3_EndSessionClosesOpenSession ==
    phase = "ended" =>
        /\ ~stats_tracker.is_habit_active
        /\ stats_tracker.habit_sessions =
               ExpectedSessions(stats_tracker.detection_history, end_time)

\* detected = [F,T,T,F,T] at t = 0..4 and end_session at t = 5
C3_Witness ==
    /\ phase = "ended"
    /\ Detected(stats_tracker.detection_history) = <<FALSE, TRUE, TRUE, FALSE, TRUE>>
    /\ Timestamps(stats_tracker.detection_history) = <<0, 1, 2, 3, 4>>
    /\ end_time = 5
    /\ Len(stats_tracker.habit_sessions) = 2
    /\ stats_tracker.habit_sessions[1] = [start_time |-> 1, end_time |-> 3, duration |-> 2]
    /\ stats_tracker.habit_sessions[2] = [start_time |-> 4, end_time |-> 5, duration |-> 1]
    /\ stats_tracker.total_detections = 2
    /\ stats_tracker.total_habit_time = 3

\* C4: between calls, is_habit_active holds exactly when habit_start_time
\* is set, and current_habit_duration is zero when no habit is active.
C4_ActiveIffOpenSession ==
    /\ stats_tracker.is_habit_active <=> stats_tracker.habit_start_time # None
    /\ ~stats_tracker.is_habit_active => stats_tracker.current_habit_duration = 0

\* a session whose live duration was positive has just been closed
C4_Witness ==
    /\ ~stats_tracker.is_habit_active
    /\ Len(stats_tracker.detection_history) >= 3
    /\ LET h == stats_tracker.detection_history
           n == Len(stats_tracker.detection_history) IN
       h[n-2].detected /\ h[n-1].detected /\ ~h[n].detected


\* the clock reading of the last firing before call i, or the initial
\* last_warning_time
LastFireBefore(log, i) ==
    LET F == { j \in 1..(i-1) : j <= Len(log) /\ log[j].fired } IN
    IF F = {} THEN 0
    ELSE log[CHOOSE j \in F : \A k \in F : k <= j].time

\* C6: play_warning fires, and sets last_warning_time to the clock reading
\* of the call, only when that reading is at least cooldown_seconds after
\* last_warning_time; a call it turns away leaves last_warning_time as it
\* was.  So last_warning_time is the time of the last firing, and a firing
\* is at least the cooldown it met after every firing before it.
C6_FiresOnlyAfterCooldown ==
    /\ audio_manager.last_warning_time = LastFireBefore(calls, Len(calls) + 1)
    /\ \A i \in 1..Len(calls) :
          calls[i].fired <=>
              calls[i].time - LastFireBefore(calls, i) >= calls[i].cooldown
    /\ \A i, j \in 1..Len(calls) :
          i < j /\ calls[i].fired /\ calls[j].fired
              => calls[j].time - calls[i].time >= calls[j].cooldown

\* a firing, a call turned away inside the cooldown period, a firing
C6_Witness ==
    /\ Len(calls) >= 3
    /\ \E i \in 1..(Len(calls) - 2) :
          /\ calls[i].fired /\ ~calls[i+1].fired /\ calls[i+2].fired
          /\ calls[i].cooldown = 2 /\ calls[i+1].cooldown = 2 /\ calls[i+2].cooldown = 2
          /\ calls[i+1].time > calls[i].time
    /\ audio_manager.last_warning_time = calls[Len(calls)].time

\* C7: a call on a gate that has not fired yet fires, whatever the clock
\* reading; with a cooldown of 5 the calls at 0, 2, 4, 6 fire at 0 and 6.
C7_NeverFiredGateFires ==
    /\ \A i \in 1..Len(calls) :
          (\A j \in 1..(i-1) : ~calls[j].fired) => calls[i].fired
    /\ ( /\ Len(calls) = 4
         /\ [ i \in 1..4 |-> calls[i].time ] = <<0, 2, 4, 6>>
         /\ \A i \in 1..4 : calls[i].cooldown = 5 )
       => [ i \in 1..4 |-> calls[i].fired ] = <<TRUE, FALSE, FALSE, TRUE>>

\* C8: the cooldown check and the update of last_warning_time are one
\* step under warning_lock: at most one thread is between them, and of the
\* calls that threads make within one cooldown period at most one fires.
InGate(th) == threads[th].pc \in {"line28", "line36"}

C8_CheckAndSetAtomic ==
    /\ \A t1, t2 \in Threads : InGate(t1) /\ InGate(t2) => t1 = t2
    /\ \A th \in Threads : InGate(th) => warning_lock = th
    /\ \A i, j \in 1..Len(calls) :
          i < j /\ calls[i].fired /\ calls[j].fired
              => calls[j].time - calls[i].time >= calls[j].cooldown

\* a call fires while another thread waits for the lock, and the next call
\* to reach the check, inside the same cooldown period, does not fire
C8_Witness ==
    \E i \in 1..(Len(calls) - 1) :
        /\ calls[i].fired /\ calls[i].contended
        /\ ~calls[i+1].fired
        /\ calls[i].cooldown = 2 /\ calls[i+1].cooldown = 2
        /\ calls[i+1].time - calls[i].time < 2

\* C9 as claimed: test_audio() fires whatever the time since the last
\* firing (unless even the bell fails), and returns with cooldown_seconds
\* as it was before the call.
C9_TestAudioAlwaysFires ==
    last_call.op = "test_audio" =>
        /\ audio_manager.cooldown_seconds = last_call.before.cooldown_seconds
        /\ last_call.outcome = "played" => last_call.result = "fired"

\* C9, amended: test_audio() on an enabled AudioManager fires whatever the
\* time since the last firing (unless even the bell fails); enabled or not,
\* fired or not, it returns with cooldown_seconds as it was before the call.
C9_TestAudioFiresWhenEnabled ==
    last_call.op = "test_audio" =>
        /\ audio_manager.cooldown_seconds = last_call.before.cooldown_seconds
        /\ last_call.before.enabled /\ last_call.outcome = "played"
              => /\ last_call.result = "fired"
                 /\ audio_manager.last_warning_time = last_call.time
                 /\ calls # <<>>
                 /\ calls[Len(calls)] = [ time |-> last_call.time, cooldown |-> 0,
                                           fired |-> TRUE, contended |-> FALSE ]
        /\ ~last_call.before.enabled => last_call.result = "disabled"

\* test_audio() fires one clock reading after a firing, cooldown 5
C9_Witness ==
    /\ last_call.op = "test_audio"
    /\ last_call.result = "fired"
    /\ last_call.before.cooldown_seconds = 5
    /\ last_call.before.last_warning_time > 0
    /\ last_call.time - last_call.before.last_warning_time = 1
    /\ audio_manager.cooldown_seconds = 5

\* C10: after set_cooldown(seconds), cooldown_seconds is max(0, seconds).
C10_SetCooldownClamps ==
    last_call.op = "set_cooldown" =>
        /\ audio_manager.cooldown_seconds >= 0
        /\ audio_manager.cooldown_seconds >= last_call.seconds
        /\ audio_manager.cooldown_seconds \in {0, last_call.seconds}

C10_Witness ==
    /\ last_call.op = "set_cooldown"
    /\ last_call.seconds < 0
    /\ audio_manager.cooldown_seconds = 0

\* C5: a snapshot returned by get_current_stats() equals the tracker as it
\* was before or after a transition that ran during the call: its copied
\* fields are together the fields of one tracker state that was current
\* while the snapshot was taken.
C5_SnapshotIsPreOrPostTransition ==
    render.pc = ReturnPc => SnapshotView(render.stats) \in seen

\* C16: taking a snapshot (get_current_stats, get_formatted_stats and the
\* helpers they call) leaves every field of the tracker as it was: after a
\* snapshot, session_start_time, habit_start_time, total_habit_time,
\* current_habit_duration, is_habit_active, total_detections, habit_sessions
\* and detection_history are what they were when it was called.
C16_SnapshotLeavesTrackerUnchanged ==
    last_op.op = "get_current_stats" => stats_tracker = last_op.before

\* a snapshot taken later than the start of an open habit session, with a
\* closed session before it
C16_Witness ==
    /\ last_op.op = "get_current_stats"
    /\ stats_tracker.is_habit_active
    /\ stats_tracker.habit_start_time < now - 1
    /\ Len(stats_tracker.habit_sessions) > 0
    /\ last_op.stats.total_habit_time > 0

IdempotentFields(t) ==
    << t.total_detections, t.total_habit_time, t.habit_sessions,
       t.is_habit_active, t.current_habit_duration >>

\* C17: end_session() is idempotent: after a second end_session() that
\* directly follows a first one, total_detections, total_habit_time,
\* habit_sessions, is_habit_active and current_habit_duration are as the
\* first call left them.
C17_EndSessionIdempotent ==
    (last_op.op = "end_session" /\ last_op.n = 2)
        => IdempotentFields(stats_tracker) = IdempotentFields(last_op.first)

\* two end_session() calls in a row, the first of which closed an open
\* habit session
C17_Witness ==
    /\ last_op.op = "end_session"
    /\ last_op.n = 2
    /\ Len(stats_tracker.habit_sessions) > 0
    /\ stats_tracker.habit_sessions[Len(stats_tracker.habit_sessions)].end_time
           = end_time - 1
    /\ ~stats_tracker.is_habit_active

\* C11: start_display() is idempotent while running: whether it is called
\* twice in sequence or from two threads, no second render loop is spawned,
\* and at every instant at most one render loop thread is running.
C11_AtMostOneRenderLoop == Cardinality(LiveLoops(loops)) <= 1

\* C12: stop_display() called when the renderer is not running (never
\* started, or already stopped), with no other call in progress, is a no-op:
\* it returns without error, starts no thread and leaves running false.
C12_StopWhenNotRunningIsNoOp ==
    (shown.last_stop.op = "stop" /\ ~shown.last_stop.pre_running /\ shown.last_stop.alone)
        => /\ ~shown.last_stop.error
           /\ NumCreated(loops) = shown.last_stop.pre_created
           /\ ~display.running

\* stop_display() has returned on a display that was started and stopped
\* before
C12_Witness ==
    /\ shown.last_stop.op = "stop"
    /\ ~shown.last_stop.pre_running
    /\ shown.last_stop.alone
    /\ display.display_thread # None
    /\ loops[display.display_thread].pc = "done"

\* stop_display() has returned on a display that was never started
C12_WitnessNeverStarted ==
    /\ shown.last_stop.op = "stop"
    /\ ~shown.last_stop.pre_running
    /\ shown.last_stop.alone
    /\ display.display_thread = None

\* C13: after stop_display() has returned (and before start_display() is
\* called again) the render loop renders nothing, also when it was in a tick
\* or asleep when stop_display() was called.
C13_NoRenderAfterStopReturns == ~shown.stray

\* C14: a render loop that was running when stop_display() set running to
\* False begins no further tick: it renders at most the tick in progress and
\* exits at its next loop-condition check.
C14_SignalledLoopBeginsNoTick == ~shown.late_tick

\* C15: a fault raised while rendering a tick does not terminate the loop:
\* a loop thread terminates only by reading running as False at its loop
\* condition, and after a failed tick it is in its backoff or back in the
\* loop.
C15_FaultDoesNotEndLoop ==
    \A l \in Loops :
        /\ loops[l].pc = "done" => loops[l].saw_stop
        /\ (loops[l].failed /\ ~loops[l].saw_stop) => loops[l].pc \in Alive

\* a loop whose tick failed is rendering a next tick while running is true
C15_Witness ==
    \E l \in Loops : loops[l].failed /\ loops[l].pc = "render" /\ display.running

\* the payloads C18 names: empty, not a dict, or without
\* classification_predictions
Unclassified(result) == result.kind # "dict" \/ result.preds = "missing"

\* C18: _process_prediction on a payload that is {}, is not a dict or lacks
\* classification_predictions returns detected = false with top_class
\* "unknown" and confidence 0.0.
C18_UnclassifiedPayloadGivesDefault ==
    (last_prediction.op = "on_prediction" /\ Unclassified(last_prediction.result))
        => /\ ~last_prediction.process_raised
           /\ ~last_prediction.detected
           /\ last_prediction.data.top_class = "unknown"
           /\ last_prediction.data.confidence = 0

\* a dict without classification_predictions was processed, with threshold
\* 0.0, after a detection
C18_Witness ==
    /\ last_prediction.op = "on_prediction"
    /\ last_prediction.result.kind = "dict"
    /\ last_prediction.result.preds = "missing"
    /\ monitor.confidence_threshold = 0
    /\ Len(stats_tracker.detection_history) = 2
    /\ stats_tracker.detection_history[1].detected
    /\ ~stats_tracker.detection_history[2].detected

\* C19: the confidence of every normalized detection is within [0,1]: no
\* confidence above 1.0 or below 0.0 is passed to update_habit_detection or
\* stored in detection_history.
C19_ConfidenceWithinUnitInterval ==
    /\ \A i \in 1..Len(stats_tracker.detection_history) :
          /\ stats_tracker.detection_history[i].confidence >= 0
          /\ stats_tracker.detection_history[i].confidence <= 10
    /\ last_prediction.op = "on_prediction"
          => (last_prediction.data.confidence >= 0 /\ last_prediction.data.confidence <= 10)

\* the payloads C20 names: a key is missing, classification_predictions has
\* a wrong type, or the confidence is no number
Malformed(result) ==
    \/ result.kind # "dict"
    \/ result.preds # "dict"
    \/ result.top = "missing"
    \/ result.conf_kind # "number"

C21_ZeroDenominatorGivesZero ==
    last_op.op = "get_current_stats" =>
        LET t == last_op.before
            stats == last_op.stats
        IN  /\ Fault \notin { stats.habit_percentage, stats.detection_rate,
                              stats.average_session_duration }
            /\ (t.session_start_time = None \/ stats.session_duration = 0)
                  => /\ stats.habit_percentage = Ratio(0, 1)
                     /\ stats.detection_rate = Ratio(0, 1)
            /\ t.habit_sessions = <<>>
                  => stats.average_session_duration = Ratio(0, 1)

\* a snapshot taken at the clock reading of start_session(), with a
\* detection counted and no session closed yet
C21_Witness ==
    /\ last_op.op = "get_current_stats"
    /\ last_op.before.session_start_time = last_op.clock
    /\ last_op.before.total_detections > 0
    /\ last_op.before.habit_sessions = <<>>

\* a snapshot of a tracker whose session was never started, with a session
\* closed
C21_WitnessNeverStarted ==
    /\ last_op.op = "get_current_stats"
    /\ last_op.before.session_start_time = None
    /\ last_op.before.habit_sessions # <<>>

\* C22: persistence round-trips: a new StatsTracker that loads the file a
\* _save_statistics() wrote has the total_detections, the total_habit_time
\* and the habit_sessions (count, order, start and end times) of the tracker
\* that was saved.
C22_SaveLoadRoundTrip ==
    (last_op.op = "construct" /\ last_op.file.exists /\ last_op.file.corrupt_at = "none")
        => /\ stats_tracker.total_detections = last_op.file.origin.total_detections
           /\ stats_tracker.total_habit_time = last_op.file.origin.total_habit_time
           /\ stats_tracker.habit_sessions = last_op.file.origin.habit_sessions

\* a tracker loaded from the file of a run with two closed sessions
C22_Witness ==
    /\ last_op.op = "construct"
    /\ last_op.file.exists
    /\ last_op.file.corrupt_at = "none"
    /\ Len(stats_tracker.habit_sessions) = 2
    /\ stats_tracker.habit_sessions[2].start_time > stats_tracker.habit_sessions[1].end_time
    /\ stats_tracker.total_habit_time = 2
    /\ stats_tracker.total_detections = 2

\* C23: a corrupt statistics file is treated as absent: when
\* _load_statistics fails at any point of reading or decoding, the new
\* tracker is in the fresh state it has with no file.
C23_CorruptFileLoadsFresh ==
    (last_op.op = "construct" /\ last_op.file.exists /\ last_op.file.corrupt_at # "none")
        => stats_tracker = FreshTracker

\* the tracker with the session that was open in pre closed at clock
Closed(pre, clock) ==
    [ pre EXCEPT !.habit_sessions =
                     Append(@, [ start_time |-> pre.habit_start_time,
                                 end_time   |-> clock,
                                 duration   |-> clock - pre.habit_start_time ]),
                 !.total_habit_time = @ + (clock - pre.habit_start_time),
                 !.is_habit_active = FALSE,
                 !.current_habit_duration = 0,
                 !.habit_start_time = None ]

\* C24: a failure to write the statistics file does not propagate:
\* end_session() returns normally, with a habit session that was open closed
\* and the counters finalized, and stop_monitoring() runs to completion.
C24_WriteFailureDoesNotPropagate ==
    (last_op.op = "end_session" /\ last_op.outcome # "saved")
        => /\ ~last_op.raised
           /\ mon_log.stop = "completed"
           /\ ~monitor.is_monitoring
           /\ stats_tracker = IF last_op.pre.is_habit_active
                              THEN Closed(last_op.pre, last_op.clock)
                              ELSE last_op.pre

\* stop_monitoring() has run with a habit session open and the write failed
C24_Witness ==
    /\ last_op.op = "end_session"
    /\ last_op.outcome = "truncated"
    /\ last_op.pre.is_habit_active
    /\ mon_log.ran
    /\ stats_file = Undecodable
    /\ Len(stats_tracker.habit_sessions) = 1

\* the configuration values C26 names as out of range
OutOfRange(init) ==
    \/ ~ValidConfidence(init.confidence_threshold)
    \/ init.cooldown_seconds < 0

\* C26: a confidence threshold outside [0,1] or a cooldown out of range
\* passed by the caller makes the construction of HabitMonitor raise, before
\* any component (tracker, audio manager, display) is created.
C26_OutOfRangeConfigRaises ==
    (mon_log.init.op = "init" /\ OutOfRange(mon_log.init))
        => /\ mon_log.init.raised
           /\ mon_log.init.created = {}

\* thread th leaves play_warning from line 38 or line 40 in this step
LeavesPlayWarning(th) ==
    threads[th].pc \in {"line38", "line40"} /\ threads'[th].pc \notin {"line38", "line40"}

\* the call returned to its caller with the lock free and the gate as it was
ReturnedNormally(th) ==
    /\ last_call'.returned
    /\ ~last_call'.raised
    /\ warning_lock = th
    /\ warning_lock' = None
    /\ threads'[th].pc = "idle"
    /\ audio_manager'.enabled = audio_manager.enabled

\* C25: when the platform player raises, play_warning returns normally, the
\* terminal bell is emitted, warning_lock is released and the thread can
\* make its next call.
C25_SinkFailureGivesBell ==
    [][ \A th \in Threads :
          (LeavesPlayWarning(th) /\ last_call.sink = "raised")
              => /\ ReturnedNormally(th)
                 /\ last_call'.bell_emitted ]_vars

\* C25 with the bell conditional on print("\a") succeeding: when the
\* platform player raises, play_warning returns normally with warning_lock
\* released and the thread ready for its next call; the terminal bell is
\* emitted unless writing it raises as well.
C25_SinkFailureNeverPropagates ==
    [][ \A th \in Threads :
          (LeavesPlayWarning(th) /\ last_call.sink = "raised")
              => /\ ReturnedNormally(th)
                 /\ (last_call.bell # "raised" => last_call'.bell_emitted) ]_vars

\* a call whose platform player raised gave the bell and returned, after an
\* earlier call whose player had raised too, and the lock is free
C25_Witness ==
    /\ last_call.op = "play_warning"
    /\ last_call.returned
    /\ last_call.sink = "raised"
    /\ last_call.bell_emitted
    /\ last_call.after_failure
    /\ warning_lock = None
    /\ Len(calls) >= 1

\* this step is a call update_habit_detection(detected)
UpdateStep(detected) ==
    /\ update_habit_detection
    /\ stats_tracker'.detection_history[Len(stats_tracker'.detection_history)].detected
           = detected

\* the last call recorded in the detection history of t
LastEvent(t) == t.detection_history[Len(t.detection_history)]

\* C27: update_habit_detection(True) while no habit is active opens a
\* session at the current time, adds exactly 1 to total_detections and leaves
\* total_habit_time, habit_sessions and current_habit_duration as they were.
C27_DetectionOpensSession ==
    [][ (UpdateStep(TRUE) /\ ~stats_tracker.is_habit_active)
          => /\ stats_tracker'.habit_start_time = now
             /\ stats_tracker'.is_habit_active
             /\ stats_tracker'.total_detections = stats_tracker.total_detections + 1
             /\ stats_tracker'.total_habit_time = stats_tracker.total_habit_time
             /\ stats_tracker'.habit_sessions = stats_tracker.habit_sessions
             /\ stats_tracker'.current_habit_duration
                    = stats_tracker.current_habit_duration ]_vars

\* the second session has just been opened by a detection
C27_Witness ==
    /\ stats_tracker.is_habit_active
    /\ Len(stats_tracker.detection_history) >= 3
    /\ LastEvent(stats_tracker).detected
    /\ LastEvent(stats_tracker).timestamp = stats_tracker.habit_start_time
    /\ stats_tracker.total_detections = 2
    /\ Len(stats_tracker.habit_sessions) = 1
    /\ stats_tracker.total_habit_time > 0

\* C28: update_habit_detection(False) while a habit is active appends
\* exactly one session {start = habit_start_time, end = now, duration = end -
\* start}, adds that duration to total_habit_time, clears is_habit_active
\* and current_habit_duration, and leaves total_detections as it was.
C28_NoDetectionClosesSession ==
    [][ (UpdateStep(FALSE) /\ stats_tracker.is_habit_active)
          => /\ stats_tracker'.habit_sessions =
                    Append(stats_tracker.habit_sessions,
                           [ start_time |-> stats_tracker.habit_start_time,
                             end_time   |-> now,
                             duration   |-> now - stats_tracker.habit_start_time ])
             /\ stats_tracker'.total_habit_time =
                    stats_tracker.total_habit_time
                        + (now - stats_tracker.habit_start_time)
             /\ ~stats_tracker'.is_habit_active
             /\ stats_tracker'.current_habit_duration = 0
             /\ stats_tracker'.total_detections = stats_tracker.total_detections ]_vars

\* the second session, two clock units long, has just been closed by a call
\* without detection
C28_Witness ==
    /\ ~stats_tracker.is_habit_active
    /\ Len(stats_tracker.detection_history) >= 4
    /\ ~LastEvent(stats_tracker).detected
    /\ Len(stats_tracker.habit_sessions) = 2
    /\ stats_tracker.habit_sessions[2].end_time = LastEvent(stats_tracker).timestamp
    /\ stats_tracker.habit_sessions[2].duration = 2
    /\ stats_tracker.total_habit_time = 3
    /\ stats_tracker.total_detections = 2

\* the fields of the session bookkeeping
Bookkeeping(t) ==
    <<t.habit_start_time, t.is_habit_active, t.total_detections,
      t.total_habit_time, t.habit_sessions, t.current_habit_duration>>

\* C29: update_habit_detection(True) while a habit is active only sets
\* current_habit_duration to now - habit_start_time; update_habit_detection(False)
\* while no habit is active changes no field of the session bookkeeping.
C29_ContinuingAndIdleCalls ==
    [][ /\ (UpdateStep(TRUE) /\ stats_tracker.is_habit_active)
            => /\ stats_tracker'.is_habit_active
               /\ stats_tracker'.current_habit_duration
                      = now - stats_tracker.habit_start_time
               /\ stats_tracker'.total_detections = stats_tracker.total_detections
               /\ stats_tracker'.total_habit_time = stats_tracker.total_habit_time
               /\ stats_tracker'.habit_sessions = stats_tracker.habit_sessions
               /\ stats_tracker'.habit_start_time = stats_tracker.habit_start_time
        /\ (UpdateStep(FALSE) /\ ~stats_tracker.is_habit_active)
            => Bookkeeping(stats_tracker') = Bookkeeping(stats_tracker) ]_vars

\* a call without detection found no habit active, then a session was opened
\* and two calls with detection have continued it
C29_Witness ==
    /\ Len(stats_tracker.detection_history) = 4
    /\ ~stats_tracker.detection_history[1].detected
    /\ stats_tracker.detection_history[3].detected
    /\ LastEvent(stats_tracker).detected
    /\ stats_tracker.is_habit_active
    /\ stats_tracker.total_detections = 1
    /\ stats_tracker.current_habit_duration = 2
    /\ stats_tracker.current_habit_duration
           = LastEvent(stats_tracker).timestamp - stats_tracker.habit_start_time

\* the entries of sessions are in chronological order and do not overlap
Chronological(sessions) ==
    \A i \in 1..Len(sessions) :
        /\ sessions[i].end_time >= sessions[i].start_time
        /\ i > 1 => sessions[i].start_time >= sessions[i - 1].end_time

\* sessions is kept whole at the front of later
Extends(later, sessions) ==
    /\ Len(later) >= Len(sessions)
    /\ SubSeq(later, 1, Len(sessions)) = sessions

\* C30: habit_sessions is in chronological order without overlap (every
\* entry ends no earlier than it starts and starts no earlier than the entry
\* before it ends), and no step of a tracker other than reset_statistics()
\* changes or removes an entry; the constructor makes a new tracker with a
\* list of its own.
C30_SessionsChronologicalAppendOnly ==
    /\ [] Chronological(stats_tracker.habit_sessions)
    /\ [][ (~reset_statistics /\ ~Construct)
             => Extends(stats_tracker'.habit_sessions,
                        stats_tracker.habit_sessions) ]_vars

\* three sessions have been recorded one after the other
C30_Witness ==
    /\ Len(stats_tracker.habit_sessions) = 3
    /\ stats_tracker.habit_sessions[3].start_time
           > stats_tracker.habit_sessions[2].end_time
    /\ stats_tracker.habit_sessions[2].start_time
           >= stats_tracker.habit_sessions[1].end_time
    /\ stats_tracker.habit_sessions[1].end_time
           > stats_tracker.habit_sessions[1].start_time

\* C31: in every reachable state of the tracker, also after the statistics
\* were saved and loaded again, total_habit_time is the sum of the durations
\* of the entries of habit_sessions.
C31_TotalIsSumOfDurations ==
    stats_tracker.total_habit_time = SumDurations(stats_tracker.habit_sessions)

\* C32: a habit session is open only while tracking: is_habit_active is
\* never true on a tracker whose start_session() was not called, and a call
\* of update_habit_detection after end_session() opens no habit session and
\* changes none of total_detections, total_habit_time and habit_sessions.
C32_HabitOpenOnlyWhileTracking ==
    /\ [] (stats_tracker.is_habit_active => stats_tracker.session_start_time # None)
    /\ [][ (phase = "ended" /\ update_habit_detection)
             => /\ ~stats_tracker'.is_habit_active
                /\ stats_tracker'.total_detections = stats_tracker.total_detections
                /\ stats_tracker'.total_habit_time = stats_tracker.total_habit_time
                /\ stats_tracker'.habit_sessions = stats_tracker.habit_sessions ]_vars

\* C33: for every frame delivered to _on_prediction the tracker is updated
\* first, whether or not the frame is a detection; the gate is consulted
\* after that, on every frame with a detection (also inside a habit session
\* that is already open) and on no other frame.
C33_TrackerThenGateOnDetection ==
    last_prediction.op = "on_prediction"
        => /\ Len(last_prediction.made) >= 1
           /\ last_prediction.made[1] = "update_habit_detection"
           /\ stats_tracker.detection_history # <<>>
           /\ LastEvent(stats_tracker).detected = last_prediction.detected
           /\ last_prediction.detected
                  <=> last_prediction.made = << "update_habit_detection", "play_warning" >>
           /\ ~last_prediction.detected
                  <=> last_prediction.made = << "update_habit_detection" >>

\* the second frame of a sustained habit has consulted the gate, which fired
\* because the cooldown period had passed
C33_Witness ==
    /\ last_prediction.op = "on_prediction"
    /\ last_prediction.detected
    /\ Made(last_prediction.made, "play_warning")
    /\ stats_tracker.is_habit_active
    /\ stats_tracker.current_habit_duration = 1
    /\ stats_tracker.total_detections = 1
    /\ audio_manager.last_warning_time = LastEvent(stats_tracker).timestamp
    /\ audio_manager.last_warning_time > stats_tracker.habit_start_time

\* C34: start_monitoring() is left only through stop_monitoring(), and per
\* run end_session() is executed exactly once: when the run is over every
\* start_session() has been matched by one end_session(), monitoring is off,
\* and a second stop_monitoring() ends no session again.
C34_EverySessionEndedOnce ==
    /\ run.ended <= 1
    /\ run.pc = "exited"
           => /\ ~monitor.is_monitoring
              /\ run.ended = run.started

\* C35: on a tracker that started fresh, after any calls of
\* update_habit_detection and end_session, total_detections is the number of
\* entries of habit_sessions plus one for a habit session that is open.
C35_DetectionsCountSessions ==
    stats_tracker.total_detections
        = Len(stats_tracker.habit_sessions)
              + (IF stats_tracker.is_habit_active THEN 1 ELSE 0)

\* two sessions are closed, one of them by end_session, and a third is open
C35_Witness ==
    /\ stats_tracker.total_detections = 3
    /\ Len(stats_tracker.habit_sessions) = 2
    /\ stats_tracker.is_habit_active
    /\ end_time = stats_tracker.habit_sessions[2].end_time

\* C36: the habit percentage in a snapshot is within [0, 100], also on a
\* tracker that loaded the statistics of an earlier run before start_session().
C36_HabitPercentageWithinRange ==
    last_op.op = "get_current_stats"
        => /\ last_op.stats.habit_percentage.num >= 0
           /\ last_op.stats.habit_percentage.num
                  <= 100 * last_op.stats.habit_percentage.den

\* test_audio() is running in the tester and has set cooldown_seconds to 0
Zeroed ==
    threads[Tester].in_test /\ threads[Tester].pc # "line120"

\* the caller passes the cooldown check of play_warning in this step
PassesCheck ==
    threads[Caller].pc = "line28" /\ threads'[Caller].pc = "line36"

\* C37: while test_audio() runs in one thread, a play_warning() call of
\* another thread passes the cooldown check only when the configured
\* cooldown has passed since every earlier firing, and the restore of
\* test_audio leaves a cooldown that set_cooldown set meanwhile in place.
C37_TestAudioLeavesGateAndCooldown ==
    /\ [][ (PassesCheck /\ Zeroed /\ last_call = NoCall)
             => \A i \in 1..Len(calls) :
                   calls[i].fired
                       => now - calls[i].time >= threads[Tester].original_cooldown ]_vars
    /\ [][ (threads[Tester].pc = "line130" /\ threads'[Tester].pc = "idle"
               /\ last_call.op = "set_cooldown")
             => audio_manager'.cooldown_seconds = last_call.seconds ]_vars

\* two values num/den are the same number
SameValue(a, b) == a.num * b.den = b.num * a.den

\* C38: in the dict that get_current_stats() returns, habit_percentage and
\* detection_rate are the values computed from the session_duration of the
\* same dict: (total_habit_time + current_habit_duration) / session_duration
\* * 100 and total_detections / (session_duration in minutes).  Stated for
\* the snapshots during which no habit session was opened or closed.
C38_SnapshotFromOneInstant ==
    (render.pc = ReturnPc /\ seen = {View(stats_tracker)} /\ ingest.pc = "idle")
        => /\ SameValue(render.stats.habit_percentage,
                        Ratio((render.stats.total_habit_time
                                 + render.stats.current_habit_duration) * 100,
                              render.stats.session_duration))
           /\ SameValue(render.stats.detection_rate,
                        Ratio(render.stats.total_detections * 60,
                              render.stats.session_duration))

\* C39: once stop_monitoring() has ended the session and saved the
\* statistics, the tracker in memory stays what the file records: no
\* callback of the pipeline changes total_detections, habit_sessions or
\* is_habit_active any more, and no habit session is open.
C39_TrackerIsPersistedRecordAfterStop ==
    (mon_log.saved /\ ~monitor.is_monitoring)
        => /\ stats_tracker.total_detections = stats_file.origin.total_detections
           /\ stats_tracker.habit_sessions = stats_file.origin.habit_sessions
           /\ stats_tracker.is_habit_active = stats_file.origin.is_habit_active
           /\ ~stats_tracker.is_habit_active

\* C40: for start_display() and stop_display() called one after the other,
\* a render loop that stop_display() has signalled never passes its
\* `while self.running` test into a further tick while another render loop
\* is live: the loop left behind by a join that timed out does not resume
\* beside the loop of the next start_display().
C40_StoppedLoopNeverResumesBesideNewLoop ==
    [][ \A l \in Loops :
            (LoopCheck(l) /\ ~shown.overlap /\ loops[l].signalled
                          /\ loops'[l].pc = "render")
                => LiveLoops(loops) = {l} ]_vars

====
